---- MODULE Spec2Model ----
(***************************************************************************)
(* Ingestion and derived-table engine of the NBA analytics API.            *)
(*                                                                         *)
(* The store is the committed content of the relational tables.  Every     *)
(* sync function works on a SQLAlchemy session created by SessionLocal     *)
(* (db_session.py:35, autocommit=False, autoflush=False): objects handed   *)
(* to db.add() stay pending until db.commit() flushes them, and a          *)
(* db.query() reads the committed rows only.  A flush that violates a      *)
(* constraint raises, rolls the whole transaction back and leaves the      *)
(* session inactive until Session.rollback() is called.                    *)
(*                                                                         *)
(* The default engine is SQLite (db_session.py:14,23-29), which does not   *)
(* enforce foreign keys; primary keys and UNIQUE columns are enforced.     *)
(***************************************************************************)
EXTENDS Integers, Sequences, FiniteSets, TLC

VARIABLES
    teams,      \* committed rows of table teams (database.py:41-51)
    players,    \* committed rows of table players (database.py:17-35)
    games,      \* committed rows of table games (database.py:58-84)
    stats,      \* committed rows of table game_stats, in autoincrement-id order
    syncLog,    \* committed rows of table sync_log, in autoincrement-id order
    pc,         \* position of the perform_daily_sync invocation in flight
    sess,       \* transaction state of that invocation's session
    local,      \* locals of perform_daily_sync (games_synced, exception in flight)
                \* and observation: the fetch errors its phases printed and dropped
    phaseLog,   \* observation: the phases of the invocation that returned, in order
    obs,        \* observation: the last operation run, its input and its outcome
    seasonAverages, \* committed rows of table season_averages (database.py:184-234)
    teamStandings,  \* committed rows of table team_standings (database.py:236-277)
    headToHead,     \* committed rows of table head_to_head (database.py:279-309)
    streaks,        \* committed rows of table performance_streaks (database.py:394-422)
    clock           \* datetime.utcnow() as read by the last derived-table run

\* the derived tables and the clock their runs read
derived == <<seasonAverages, teamStandings, headToHead, streaks, clock>>

vars == <<teams, players, games, stats, syncLog, pc, sess, local, phaseLog, obs, derived>>

(***************************************************************************)
(* Bounds of the model.                                                    *)
(***************************************************************************)
\* records the provider holds for one date (all pages together)
MaxBatch == 2
\* teams in one /teams response
MaxTeamsResp == 2
\* perform_daily_sync invocations followed
MaxInvocations == 2
\* player records the provider holds (all pages together)
MaxPlayerRecords == 3
\* games of the schedule a player has box-score lines for
MaxStatGames == 9
\* derived-table runs followed (readings of the clock)
MaxClock == 3
\* games of the schedule of the league
MaxSchedule == 3

\* Python None / SQL NULL in a numeric column: a number that is no id, date
\* or score, so that it can be told from every one of them
Null == -1

TeamIds == {1, 2}
PlayerIds == {1, 2}
GameIds == {1}
Abbreviations == {"WAS", "BOS"}
Conferences == {"East", "West"}

Min(a, b) == IF a < b THEN a ELSE b

Range(s) == {s[i] : i \in 1..Len(s)}

\* all sequences over S of length at most n
RECURSIVE SeqsUpTo(_, _)
SeqsUpTo(S, n) ==
    IF n = 0 THEN {<<>>}
    ELSE LET shorter == SeqsUpTo(S, n - 1)
         IN  shorter \cup {Append(s, x) : s \in {t \in shorter : Len(t) = n - 1}, x \in S}

(***************************************************************************)
(* The provider feed.  Every fetch_api call (sync_service.py:33-42) either *)
(* raises (raise_for_status on a 4xx/5xx answer, a timeout) or returns the *)
(* page's "data" list.  A feed is the list of answers the provider gives   *)
(* to pages 1, 2, ... of one request; pages past its end are empty.        *)
(***************************************************************************)
\* per_page of the requests (sync_service.py:91,153), scaled down from 100
PerPage == 2
\* season passed by perform_daily_sync
Season == 2024
\* length limit of SyncLog.error_message
ErrorTextLimit == 500

FetchErrors == {"unauthorized", "upstream"}

PageOk(data) == [err |-> "ok", data |-> data]
PageErr(e) == [err |-> e, data |-> <<>>]

\* the answer of the provider to page number page
fetch_api(feed, page) ==
    IF page <= Len(feed) THEN feed[page] ELSE PageOk(<<>>)

\* the feed that serves the records of batch in pages of PerPage records and
\* answers page failAt (if any) with error e
Chunk(batch, page) ==
    SubSeq(batch, (page - 1) * PerPage + 1, Min(page * PerPage, Len(batch)))

PagesOf(batch) == (Len(batch) + PerPage - 1) \div PerPage

FeedOf(batch, failAt, e) ==
    [page \in 1..(IF failAt > PagesOf(batch) THEN failAt ELSE PagesOf(batch)) |->
        IF page = failAt THEN PageErr(e) ELSE PageOk(Chunk(batch, page))]

(***************************************************************************)
(* Provider records.  A stat record embeds its player, team and game       *)
(* sub-objects; the counting stats are all read the same way and are       *)
(* represented by pts.                                                     *)
(***************************************************************************)
\* what the provider reports for a game at one moment: before the final
\* whistle (no scores, nothing scored) and after it
ProviderViews == {[final |-> FALSE, pts |-> 0], [final |-> TRUE, pts |-> 7]}

game_data(g, final) ==
    [id |-> g, date |-> g, season |-> Season,
     status |-> IF final THEN "Final" ELSE "Scheduled",
     home_team_id |-> 1, visitor_team_id |-> 2,
     home_team_score |-> IF final THEN 101 ELSE Null,
     visitor_team_score |-> IF final THEN 99 ELSE Null]

StatRecord(p, g, view) ==
    [player_id |-> p, team_id |-> p, game |-> game_data(g, view.final), pts |-> view.pts]

StatRecords == {StatRecord(p, g, v) : p \in PlayerIds, g \in GameIds, v \in ProviderViews}

Batches == SeqsUpTo(StatRecords, MaxBatch)

(***************************************************************************)
(* sync_games_for_date_range, fetch loops (sync_service.py:145-177).       *)
(***************************************************************************)
\* the inner while True loop of one date: an exception of a fetch is printed
\* and ends the paging of the date, keeping what was accumulated
RECURSIVE FetchStatsPages(_, _, _)
FetchStatsPages(feed, page, acc) ==
    LET answer == fetch_api(feed, page)
        asked == [acc EXCEPT !.pages = @ + 1,
                             !.requests = Append(@, [date |-> acc.date, page |-> page])]
    IN  IF answer.err # "ok"
        THEN [asked EXCEPT !.swallowed = Append(@, answer.err)]
        ELSE IF answer.data = <<>>
        THEN asked
        ELSE LET got == [asked EXCEPT !.all_stats = @ \o answer.data]
             IN  IF Len(answer.data) < PerPage
                 THEN got
                 ELSE FetchStatsPages(feed, page + 1, got)

\* variant: the loop stops before end_date
RECURSIVE FetchAllStats_EndExclusive(_, _, _, _)
FetchAllStats_EndExclusive(feeds, current_date, end_date, acc) ==
    IF current_date < end_date
    THEN FetchAllStats_EndExclusive(feeds, current_date + 1, end_date,
                       FetchStatsPages(feeds[current_date], 1,
                                       [acc EXCEPT !.date = current_date]))
    ELSE acc

\* the outer loop over the dates current_date .. end_date; acc.date is the
\* "dates[]" parameter of the requests of the inner loop
RECURSIVE FetchAllStats(_, _, _, _)
FetchAllStats(feeds, current_date, end_date, acc) ==
    IF current_date <= end_date
    THEN FetchAllStats(feeds, current_date + 1, end_date,
                       FetchStatsPages(feeds[current_date], 1,
                                       [acc EXCEPT !.date = current_date]))
    ELSE acc

NoFetch == [all_stats |-> <<>>, swallowed |-> <<>>, pages |-> 0, requests |-> <<>>, date |-> 0]

(***************************************************************************)
(* The session.                                                            *)
(***************************************************************************)
\* sessionmaker(autoflush=False): a query does not flush the pending objects
autoflush == FALSE

\* rows a query on table games can see
VisibleGames(committed, pending) ==
    IF autoflush THEN committed \cup Range(pending) ELSE committed

\* rows a query on table game_stats can see
VisibleStats(committed, pending) ==
    IF autoflush THEN committed \o pending ELSE committed

(***************************************************************************)
(* sync_games_for_date_range, upsert loop (sync_service.py:179-238).       *)
(***************************************************************************)
NewGame(gd, season) ==
    [id |-> gd.id, date |-> gd.date, season |-> gd.season, status |-> gd.status,
     home_team_id |-> gd.home_team_id, visitor_team_id |-> gd.visitor_team_id,
     home_team_score |-> gd.home_team_score,
     visitor_team_score |-> gd.visitor_team_score]

NewGameStats(stat) ==
    [player_id |-> stat.player_id, game_id |-> stat.game.id, team_id |-> stat.team_id,
     is_home |-> (stat.game.home_team_id = stat.team_id), pts |-> stat.pts]

\* (variant) the loop without the existing_stat lookup: every record is added
UpsertStat_NoLookup(db, acc, stat) ==
    LET game == {g \in VisibleGames(db.games, acc.newGames) : g.id = stat.game.id}
        withGame ==
            IF game = {}
            THEN [acc EXCEPT !.newGames = Append(@, NewGame(stat.game, Season)),
                             !.games_synced = @ + 1]
            ELSE acc
    IN  [withGame EXCEPT !.newStats = Append(@, NewGameStats(stat)),
                         !.stats_synced = @ + 1]

\* (variant) the loop as an upsert: an existing row takes the record's values
UpsertStat_Overwrite(db, acc, stat) ==
    LET game == {g \in VisibleGames(db.games, acc.newGames) : g.id = stat.game.id}
        withGame ==
            IF game = {}
            THEN [acc EXCEPT !.newGames = Append(@, NewGame(stat.game, Season)),
                             !.games_synced = @ + 1]
            ELSE acc
        existing_stat == {i \in 1..Len(db.stats) :
                            /\ db.stats[i].player_id = stat.player_id
                            /\ db.stats[i].game_id = stat.game.id}
    IN  IF existing_stat = {}
        THEN [withGame EXCEPT !.newStats = Append(@, NewGameStats(stat)),
                              !.stats_synced = @ + 1]
        ELSE [withGame EXCEPT !.dirtyStats =
                Append(@, <<CHOOSE i \in existing_stat : TRUE, NewGameStats(stat)>>)]

\* one iteration of "for stat in all_stats"
UpsertStat(db, acc, stat) ==
    LET game == {g \in VisibleGames(db.games, acc.newGames) : g.id = stat.game.id}
        withGame ==
            IF game = {}
            THEN [acc EXCEPT !.newGames = Append(@, NewGame(stat.game, Season)),
                             !.games_synced = @ + 1]
            ELSE acc
        seen == VisibleStats(db.stats, acc.newStats)
        existing_stat == {i \in 1..Len(seen) :
                            /\ seen[i].player_id = stat.player_id
                            /\ seen[i].game_id = stat.game.id}
    IN  IF existing_stat = {}
        THEN [withGame EXCEPT !.newStats = Append(@, NewGameStats(stat)),
                              !.stats_synced = @ + 1]
        ELSE withGame

\* "for stat in all_stats" (line 182).  For a record that came without its
\* game sub-object game_data is {} (line 183) and game_data["id"] raises
\* KeyError (line 189): the loop is left with the objects added so far
\* pending in the session.
RECURSIVE UpsertStats(_, _, _)
UpsertStats(db, acc, all_stats) ==
    IF all_stats = <<>> THEN acc
    ELSE IF "game" \notin DOMAIN Head(all_stats)
    THEN [acc EXCEPT !.raised = "KeyError"]
    ELSE UpsertStats(db, UpsertStat(db, acc, Head(all_stats)), Tail(all_stats))

\* the session at the start of the loop: nothing added, no loaded row modified
NothingPending ==
    [newGames |-> <<>>, newStats |-> <<>>, dirtyStats |-> <<>>,
     games_synced |-> 0, stats_synced |-> 0, raised |-> "none"]

\* the UPDATEs of the flush: dirty is a list of <<row id, new row>>
RECURSIVE ApplyStatUpdates(_, _)
ApplyStatUpdates(rows, dirty) ==
    IF dirty = <<>> THEN rows
    ELSE ApplyStatUpdates([rows EXCEPT ![Head(dirty)[1]] = Head(dirty)[2]], Tail(dirty))

\* the INSERTs of the flush succeed unless a primary key of games repeats
GamesFlushOk(committed, pending) ==
    /\ \A i \in 1..Len(pending) : \A g \in committed : g.id # pending[i].id
    /\ \A i, j \in 1..Len(pending) : i # j => pending[i].id # pending[j].id

\* db.commit() of sync_games_for_date_range (line 236) and the return
CommitGames(db, acc) ==
    IF GamesFlushOk(db.games, acc.newGames)
    THEN [raised |-> "none", games |-> db.games \cup Range(acc.newGames),
          stats |-> ApplyStatUpdates(db.stats, acc.dirtyStats) \o acc.newStats,
          ret |-> acc.games_synced, sess |-> "active"]
    ELSE [raised |-> "IntegrityError", games |-> db.games, stats |-> db.stats,
          ret |-> 0, sess |-> "inactive"]

\* the whole of sync_games_for_date_range on a session in state db.sess
sync_games_for_date_range(db, feeds, start_date, end_date) ==
    LET fetched == FetchAllStats(feeds, start_date, end_date, NoFetch)
    IN  IF db.sess = "inactive"
        THEN \* the first query, or the commit, raises PendingRollbackError
             [raised |-> "PendingRollbackError", games |-> db.games, stats |-> db.stats,
              ret |-> 0, sess |-> "inactive", fetched |-> fetched,
              staged |-> NothingPending]
        ELSE LET acc == UpsertStats(db, NothingPending, fetched.all_stats)
             IN  IF acc.raised # "none"
                 THEN \* the loop raised: nothing is flushed, the session stays usable
                      [raised |-> acc.raised, games |-> db.games, stats |-> db.stats,
                       ret |-> 0, sess |-> "active", fetched |-> fetched,
                       staged |-> [acc EXCEPT !.raised = "none"]]
                 ELSE [fetched |-> fetched, staged |-> NothingPending]
                      @@ CommitGames(db, acc)

(***************************************************************************)
(* sync_teams (sync_service.py:48-81).  Of the descriptive columns (city,  *)
(* conference, division, full_name, name), all copied the same way,        *)
(* conference stands for the rest.                                         *)
(***************************************************************************)
TeamData == [id : TeamIds, abbreviation : Abbreviations, conference : Conferences]

TeamResponses == SeqsUpTo(TeamData, MaxTeamsResp)

NewTeam(td) == [id |-> td.id, abbreviation |-> td.abbreviation, conference |-> td.conference]

\* rows a query on table teams can see
VisibleTeams(committed, pending) ==
    IF autoflush THEN committed \cup Range(pending) ELSE committed

\* one iteration of "for team_data in teams_data": the row of the id is
\* looked up; a missing one is added, a loaded one has its attributes set
UpsertTeam(db, acc, td) ==
    LET team == {t \in VisibleTeams(db.teams, acc.newTeams) : t.id = td.id}
    IN  IF team = {}
        THEN [acc EXCEPT !.newTeams = Append(@, NewTeam(td)), !.synced = @ + 1]
        ELSE [acc EXCEPT !.dirty = [i \in DOMAIN @ \cup {td.id} |->
                                        IF i = td.id THEN NewTeam(td) ELSE @[i]]]

RECURSIVE UpsertTeams(_, _, _)
UpsertTeams(db, acc, teams_data) ==
    IF teams_data = <<>> THEN acc
    ELSE UpsertTeams(db, UpsertTeam(db, acc, Head(teams_data)), Tail(teams_data))

NoTeamsPending == [newTeams |-> <<>>, dirty |-> <<>>, synced |-> 0]

\* Team.abbreviation is declared unique=True (database.py:46)
AbbreviationUnique == TRUE

\* may row be written to table rows (an INSERT, or the UPDATE of row.id)?
TeamRowAccepted(rows, row, isInsert) ==
    /\ isInsert => \A t \in rows : t.id # row.id
    /\ AbbreviationUnique =>
           \A t \in rows : t.id # row.id => t.abbreviation # row.abbreviation

\* the outcome of a flush: the table after it, or the failure
Flushed(rows) == [ok |-> TRUE, rows |-> rows]
IntegrityError == [ok |-> FALSE, rows |-> {}]

\* the flush emits the UPDATEs of the modified rows in primary-key order
RECURSIVE FlushTeamUpdates(_, _)
FlushTeamUpdates(rows, dirty) ==
    IF DOMAIN dirty = {} THEN Flushed(rows)
    ELSE LET id == CHOOSE i \in DOMAIN dirty : \A j \in DOMAIN dirty : i <= j
             others == {t \in rows : t.id # id}
             rest == [j \in DOMAIN dirty \ {id} |-> dirty[j]]
         IN  IF TeamRowAccepted(rows, dirty[id], FALSE)
             THEN FlushTeamUpdates(others \cup {dirty[id]}, rest)
             ELSE IntegrityError

\* ... and then the INSERTs of the added rows in the order they were added
RECURSIVE FlushTeamInserts(_, _)
FlushTeamInserts(rows, pending) ==
    IF pending = <<>> THEN Flushed(rows)
    ELSE IF TeamRowAccepted(rows, Head(pending), TRUE)
         THEN FlushTeamInserts(rows \cup {Head(pending)}, Tail(pending))
         ELSE IntegrityError

\* db.commit() of sync_teams (line 79)
CommitTeams(db, acc) ==
    LET updated == FlushTeamUpdates(db.teams, acc.dirty)
    IN  IF updated.ok THEN FlushTeamInserts(updated.rows, acc.newTeams)
        ELSE IntegrityError

\* the whole of sync_teams; answer is what the provider gives to GET /teams
sync_teams(db, answer) ==
    IF answer.err # "ok"
    THEN [raised |-> answer.err, teams |-> db.teams, ret |-> 0, sess |-> db.sess]
    ELSE IF db.sess = "inactive"
    THEN [raised |-> "PendingRollbackError", teams |-> db.teams, ret |-> 0,
          sess |-> "inactive"]
    ELSE LET flushed == CommitTeams(db, UpsertTeams(db, NoTeamsPending, answer.data))
         IN  IF ~flushed.ok
             THEN [raised |-> "IntegrityError", teams |-> db.teams, ret |-> 0,
                   sess |-> "inactive"]
             ELSE [raised |-> "none", teams |-> flushed.rows, ret |-> Len(answer.data),
                   sess |-> "active"]

(***************************************************************************)
(* sync_players (sync_service.py:83-133).  The name and position columns   *)
(* are copied like team_id and are left out.                               *)
(***************************************************************************)
\* team_id of a player record without a team sub-object (None at line 117);
\* a number, so that the team ids of the records compare with one another
NoTeam == 0

PlayerData == [id : PlayerIds, team : TeamIds \cup {NoTeam}]

NewPlayer(pd) == [id |-> pd.id, team_id |-> pd.team]

\* (variant) the loop without the test of line 99: only an empty page ends it
RECURSIVE FetchPlayersPages_NoShortStop(_, _, _)
FetchPlayersPages_NoShortStop(feed, page, acc) ==
    LET answer == fetch_api(feed, page)
        asked == [acc EXCEPT !.pages = @ + 1, !.requested = Append(@, page)]
    IN  IF answer.err # "ok"
        THEN [asked EXCEPT !.raised = answer.err]
        ELSE IF answer.data = <<>>
        THEN asked
        ELSE FetchPlayersPages_NoShortStop(feed, page + 1,
                    [asked EXCEPT !.all_players = @ \o answer.data])

\* the while True loop: an exception of a fetch is not caught here
RECURSIVE FetchPlayersPages(_, _, _)
FetchPlayersPages(feed, page, acc) ==
    LET answer == fetch_api(feed, page)
        asked == [acc EXCEPT !.pages = @ + 1, !.requested = Append(@, page)]
    IN  IF answer.err # "ok"
        THEN [asked EXCEPT !.raised = answer.err]
        ELSE IF answer.data = <<>>
        THEN asked
        ELSE LET got == [asked EXCEPT !.all_players = @ \o answer.data]
             IN  IF Len(answer.data) < PerPage
                 THEN got
                 ELSE FetchPlayersPages(feed, page + 1, got)

\* requested: the page numbers asked for, in the order of the requests
NoPlayersFetch == [all_players |-> <<>>, raised |-> "none", pages |-> 0, requested |-> <<>>]

\* rows a query on table players can see
VisiblePlayers(committed, pending) ==
    IF autoflush THEN committed \cup Range(pending) ELSE committed

UpsertPlayer(db, acc, pd) ==
    LET player == {r \in VisiblePlayers(db.players, acc.newPlayers) : r.id = pd.id}
    IN  IF player = {}
        THEN [acc EXCEPT !.newPlayers = Append(@, NewPlayer(pd)), !.synced = @ + 1]
        ELSE [acc EXCEPT !.dirty = [i \in DOMAIN @ \cup {pd.id} |->
                                        IF i = pd.id THEN NewPlayer(pd) ELSE @[i]]]

RECURSIVE UpsertPlayers(_, _, _)
UpsertPlayers(db, acc, all_players) ==
    IF all_players = <<>> THEN acc
    ELSE UpsertPlayers(db, UpsertPlayer(db, acc, Head(all_players)), Tail(all_players))

NoPlayersPending == [newPlayers |-> <<>>, dirty |-> <<>>, synced |-> 0]

\* db.commit() of sync_players (line 131): the UPDATEs cannot fail, an INSERT
\* fails on a repeated primary key
CommitPlayers(db, acc) ==
    LET updated == {r \in db.players : r.id \notin DOMAIN acc.dirty}
                       \cup {acc.dirty[i] : i \in DOMAIN acc.dirty}
        new == acc.newPlayers
    IN  IF /\ \A i \in 1..Len(new) : \A r \in updated : r.id # new[i].id
           /\ \A i, j \in 1..Len(new) : i # j => new[i].id # new[j].id
        THEN Flushed(updated \cup Range(new))
        ELSE IntegrityError

\* the whole of sync_players; feed is what the provider gives to the pages
sync_players(db, feed) ==
    LET fetched == FetchPlayersPages(feed, 1, NoPlayersFetch)
    IN  [fetched |-> fetched] @@
        IF fetched.raised # "none"
        THEN [raised |-> fetched.raised, players |-> db.players, ret |-> 0,
              sess |-> db.sess]
        ELSE IF db.sess = "inactive"
        THEN [raised |-> "PendingRollbackError", players |-> db.players, ret |-> 0,
              sess |-> "inactive"]
        ELSE LET flushed == CommitPlayers(db, UpsertPlayers(db, NoPlayersPending,
                                                            fetched.all_players))
             IN  IF ~flushed.ok
                 THEN [raised |-> "IntegrityError", players |-> db.players, ret |-> 0,
                       sess |-> "inactive"]
                 ELSE [raised |-> "none", players |-> flushed.rows,
                       ret |-> Len(fetched.all_players), sess |-> "active"]

(***************************************************************************)
(* Initial state: empty tables, no invocation in flight.                   *)
(***************************************************************************)
NoObs ==
    [op |-> "none", input |-> <<>>, raised |-> "none", ret |-> 0, repeat |-> FALSE,
     gamesBefore |-> {}, statsBefore |-> 0]

NoLocal ==
    [n |-> 0, logStart |-> 0, games_synced |-> 0, error |-> "none", rejected |-> FALSE,
     absorbed |-> 0, staged |-> NothingPending]

Init ==
    /\ teams = {}
    /\ players = {}
    /\ games = {}
    /\ stats = <<>>
    /\ syncLog = <<>>
    /\ pc = "Idle"
    /\ sess = "closed"
    /\ local = NoLocal
    /\ phaseLog = <<>>
    /\ obs = NoObs
    /\ seasonAverages = <<>>
    /\ teamStandings = <<>>
    /\ headToHead = <<>>
    /\ streaks = <<>>
    /\ clock = 0

(***************************************************************************)
(* A call of sync_games_for_date_range for one day on a session of its own *)
(* (POST /sync/initial-setup, main.py:688-719).                            *)
(***************************************************************************)
\* the feeds of one day that answer every page: a batch of records in pages
OkFeeds == {FeedOf(b, 0, "ok") : b \in Batches}

\* the feeds of one day in which a fetch fails with an error of errs: on the
\* first page, or on the page asked for after a batch that ends on a full page
FailingFeeds(errs) ==
    {<<PageErr(e)>> : e \in errs}
    \cup {FeedOf(b, PagesOf(b) + 1, e) :
            b \in {c \in Batches : Len(c) > 0 /\ Len(c) % PerPage = 0}, e \in errs}

\* what a sync_games_for_date_range run fetched from feeds for day 1
AllStatsOf(feeds) == FetchAllStats(feeds, 1, 1, NoFetch).all_stats

SyncGames ==
    \E feed \in OkFeeds \cup {<<PageErr("upstream")>>} :
        LET feeds == <<feed>>
            r == sync_games_for_date_range(
                    [games |-> games, stats |-> stats, sess |-> "active"], feeds, 1, 1)
        IN  /\ games' = r.games
            /\ stats' = r.stats
            /\ obs' = [op |-> "sync_games", input |-> feeds, raised |-> r.raised,
                       ret |-> r.ret,
                       repeat |-> (obs.op = "sync_games" /\ obs.input = feeds),
                       gamesBefore |-> {g.id : g \in games},
                       statsBefore |-> Len(stats)]
            /\ UNCHANGED <<teams, players, syncLog, pc, sess, local, phaseLog, derived>>

NextGames == SyncGames

SpecGames == Init /\ [][NextGames]_vars

(***************************************************************************)
(* A call of sync_teams on a session of its own (test_sync.py:120-137).    *)
(***************************************************************************)
TeamAnswers == {PageOk(resp) : resp \in TeamResponses} \cup {PageErr(e) : e \in FetchErrors}

SyncTeams ==
    \E answer \in TeamAnswers :
        LET r == sync_teams([teams |-> teams, sess |-> "active"], answer)
        IN  /\ teams' = r.teams
            /\ obs' = [NoObs EXCEPT !.op = "sync_teams", !.input = answer,
                                    !.raised = r.raised, !.ret = r.ret]
            /\ UNCHANGED <<players, games, stats, syncLog, pc, sess, local, phaseLog, derived>>

NextTeams == SyncTeams

SpecTeams == Init /\ [][NextTeams]_vars

(***************************************************************************)
(* A call of sync_players on a session of its own (initial_setup.py:25-47, *)
(* POST /sync/initial-setup).                                              *)
(***************************************************************************)
\* the provider's players: player p is on team p or on no team
PlayersServed == {pd \in PlayerData : pd.team \in {pd.id, NoTeam}}

PlayerBatches == SeqsUpTo(PlayersServed, MaxPlayerRecords)

\* the feeds of GET /players: the provider's players in pages, every page
\* answered, or the first or the second request failing
PlayerFeeds ==
    {FeedOf(b, 0, "ok") : b \in PlayerBatches}
    \cup {<<PageErr("upstream")>>}
    \cup {FeedOf(b, 2, "upstream") : b \in {c \in PlayerBatches : Len(c) >= PerPage}}

SyncPlayers ==
    \E feed \in PlayerFeeds :
        LET r == sync_players([players |-> players, sess |-> "active"], feed)
        IN  /\ players' = r.players
            /\ obs' = [playersBefore |-> players, requested |-> r.fetched.requested,
                       all_players |-> r.fetched.all_players]
                      @@ [NoObs EXCEPT !.op = "sync_players", !.input = feed,
                                       !.raised = r.raised, !.ret = r.ret]
            /\ UNCHANGED <<teams, games, stats, syncLog, pc, sess, local, phaseLog, derived>>

NextPlayers == SyncPlayers

SpecPlayers == Init /\ [][NextPlayers]_vars

(***************************************************************************)
(* The raw tables the derived-table functions read.  They are filled by    *)
(* sync_games_for_date_range runs, one box-score line a run: the lines    *)
(* arrive in the order of the schedule, game g on day g, those of one game *)
(* in any order.  Game 1 belongs to the season before Season, the later    *)
(* games to Season.                                                        *)
(***************************************************************************)
ScheduledGame(g) ==
    [id |-> g, date |-> g, season |-> IF g = 1 THEN Season - 1 ELSE Season,
     status |-> "Final", home_team_id |-> 1, visitor_team_id |-> 2,
     home_team_score |-> 101, visitor_team_score |-> 99]

BoxScoreLine(p, g, pts) ==
    [player_id |-> p, team_id |-> p, game |-> ScheduledGame(g), pts |-> pts]

\* the GameStats rows of player p
LinesOf(rows, p) == {i \in 1..Len(rows) : rows[i].player_id = p}

\* the provider reports the next game of a player of ps, with one of the
\* point counts served[p][g], and a run ingests the line
IngestStatLine(ps, served) ==
    \E p \in ps :
        LET g == Cardinality(LinesOf(stats, p)) + 1
        IN  /\ g <= MaxStatGames
            /\ \A q \in ps : Cardinality(LinesOf(stats, q)) >= g - 1
            /\ \E pts \in served[p][g] :
                LET feeds == <<FeedOf(<<BoxScoreLine(p, g, pts)>>, 0, "ok")>>
                    r == sync_games_for_date_range(
                            [games |-> games, stats |-> stats, sess |-> "active"],
                            feeds, 1, 1)
                IN  /\ games' = r.games
                    /\ stats' = r.stats
                    /\ obs' = [NoObs EXCEPT !.op = "sync_games", !.input = feeds,
                                            !.raised = r.raised, !.ret = r.ret]
            /\ UNCHANGED <<teams, players, syncLog, pc, sess, local, phaseLog, derived>>

(***************************************************************************)
(* sync_season_averages (sync_service.py:244-359).  The averages and the   *)
(* totals of the counting stats are all taken the same way; pts stands for *)
(* them.  An average is the exact quotient total / count, kept in lowest   *)
(* terms.                                                                  *)
(***************************************************************************)
\* players with fewer games than this are skipped (line 280)
MinGamesPlayed == 5

RECURSIVE GCD(_, _)
GCD(a, b) == IF b = 0 THEN a ELSE GCD(b, a % b)

\* func.avg: total / n for n > 0
Quotient(total, n) ==
    LET d == GCD(total, n) IN [num |-> total \div d, den |-> n \div d]

RECURSIVE SumPts(_, _)
SumPts(rows, idx) ==
    IF idx = {} THEN 0
    ELSE LET i == CHOOSE j \in idx : TRUE
         IN  rows[i].pts + SumPts(rows, idx \ {i})

\* GameStats joined with Game on game_id, filtered on Game.season
SeasonLines(db, season) ==
    {i \in 1..Len(db.stats) :
        \E g \in db.games : g.id = db.stats[i].game_id /\ g.season = season}

\* the grouped query of lines 249-276: one result row per player_id
PlayerStats(db, season) ==
    LET lines == SeasonLines(db, season)
        RowOf(p) ==
            LET mine == {i \in lines : db.stats[i].player_id = p}
            IN  [player_id |-> p, games_played |-> Cardinality(mine),
                 total_pts |-> SumPts(db.stats, mine),
                 avg_pts |-> Quotient(SumPts(db.stats, mine), Cardinality(mine))]
    IN  {RowOf(p) : p \in {db.stats[i].player_id : i \in lines}}

\* (variant) every player of the season gets a row
EnoughGames_Any(games_played) == games_played >= 1

\* the test of line 280, negated
EnoughGames(games_played) == ~(games_played < MinGamesPlayed)

NewSeasonAverages(st, season, now) ==
    [player_id |-> st.player_id, season |-> season, games_played |-> st.games_played,
     avg_pts |-> st.avg_pts, last_updated |-> now]

\* (variant) the loop body without the lookup of lines 297-300
UpsertSeasonAverage_NoLookup(db, acc, st, season, now) ==
    [acc EXCEPT !.new = Append(@, NewSeasonAverages(st, season, now)),
                !.synced = @ + 1]

\* one iteration of "for stats in player_stats" past the test of line 280:
\* the first committed row of the key is modified, or a new row is added
UpsertSeasonAverage(db, acc, st, season, now) ==
    LET existing == {i \in 1..Len(db.seasonAverages) :
                        /\ db.seasonAverages[i].player_id = st.player_id
                        /\ db.seasonAverages[i].season = season}
    IN  IF existing # {}
        THEN LET first == CHOOSE i \in existing : \A j \in existing : i <= j
             IN  [acc EXCEPT !.dirty = Append(@, <<first, NewSeasonAverages(st, season, now)>>),
                             !.synced = @ + 1]
        ELSE [acc EXCEPT !.new = Append(@, NewSeasonAverages(st, season, now)),
                         !.synced = @ + 1]

\* the loop of lines 279-355 over the result rows, in player_id order
RECURSIVE UpsertSeasonAverages(_, _, _, _, _)
UpsertSeasonAverages(db, acc, player_stats, season, now) ==
    IF player_stats = {} THEN acc
    ELSE LET st == CHOOSE r \in player_stats :
                        \A q \in player_stats : r.player_id <= q.player_id
             next == IF EnoughGames(st.games_played)
                     THEN UpsertSeasonAverage(db, acc, st, season, now)
                     ELSE acc
         IN  UpsertSeasonAverages(db, next, player_stats \ {st}, season, now)

NoRowsPending == [new |-> <<>>, dirty |-> <<>>, synced |-> 0]

\* the UPDATEs of a flush on a derived table: dirty is a list of <<row
\* number, new row>>
RECURSIVE ApplyRowUpdates(_, _)
ApplyRowUpdates(rows, dirty) ==
    IF dirty = <<>> THEN rows
    ELSE ApplyRowUpdates([rows EXCEPT ![Head(dirty)[1]] = Head(dirty)[2]], Tail(dirty))

\* the whole of sync_season_averages at time now: the table after the commit
\* of line 357 and the value returned
sync_season_averages(db, season, now) ==
    LET acc == UpsertSeasonAverages(db, NoRowsPending, PlayerStats(db, season), season, now)
    IN  [rows |-> ApplyRowUpdates(db.seasonAverages, acc.dirty) \o acc.new,
         ret |-> acc.synced]

(***************************************************************************)
(* Runs of sync_season_averages between ingestion runs                     *)
(* (POST /sync/goat-daily, main.py:667-686).                               *)
(***************************************************************************)
\* the points the provider reports for player p in game g
PointsByGame == [p \in PlayerIds |-> [g \in 1..MaxStatGames |-> {g + p}]]

SeasonsAsked == {Season}

\* variant: the run drops the box-score lines of the players it has averaged
SyncSeasonAverages_ConsumesLines ==
    /\ clock < MaxClock
    /\ \E season \in SeasonsAsked :
        LET now == clock + 1
            r == sync_season_averages(
                    [games |-> games, stats |-> stats, seasonAverages |-> seasonAverages],
                    season, now)
        IN  /\ seasonAverages' = r.rows
            /\ stats' = SelectSeq(stats, LAMBDA line : line.player_id \notin {row.player_id : row \in Range(r.rows)})
            /\ clock' = now
            /\ obs' = [rowsBefore |-> seasonAverages, now |-> now]
                      @@ [NoObs EXCEPT !.op = "sync_season_averages", !.input = season,
                                       !.ret = r.ret,
                                       !.repeat = (/\ obs.op = "sync_season_averages"
                                                   /\ obs.input = season)]
    /\ UNCHANGED <<teams, players, games, syncLog, pc, sess, local, phaseLog,
                   teamStandings, headToHead, streaks>>

SyncSeasonAverages ==
    /\ clock < MaxClock
    /\ \E season \in SeasonsAsked :
        LET now == clock + 1
            r == sync_season_averages(
                    [games |-> games, stats |-> stats, seasonAverages |-> seasonAverages],
                    season, now)
        IN  /\ seasonAverages' = r.rows
            /\ clock' = now
            /\ obs' = [rowsBefore |-> seasonAverages, now |-> now]
                      @@ [NoObs EXCEPT !.op = "sync_season_averages", !.input = season,
                                       !.ret = r.ret,
                                       !.repeat = (/\ obs.op = "sync_season_averages"
                                                   /\ obs.input = season)]
    /\ UNCHANGED <<teams, players, games, stats, syncLog, pc, sess, local, phaseLog,
                   teamStandings, headToHead, streaks>>

NextAverages ==
    \/ IngestStatLine(PlayerIds, PointsByGame)
    \/ SyncSeasonAverages

SpecAverages == Init /\ [][NextAverages]_vars

(***************************************************************************)
(* The league schedule the team tables are derived from.  Game g is the    *)
(* g-th game ingested; game 1 was postponed and is played on the last day, *)
(* game g > 1 on day g - 1.  A game is reported with both scores or with   *)
(* none.                                                                   *)
(***************************************************************************)
DayOf(g) == IF g = 1 THEN MaxSchedule + 1 ELSE g - 1

\* what the provider may report for a game: who hosts whom, in which season,
\* and the result, if the game was played
Fixtures ==
    {[home |-> f[1], visitor |-> f[2], season |-> Season, result |-> r] :
        f \in {<<1, 2>>, <<2, 1>>, <<1, 3>>}, r \in {"home", "visitor"}}
    \cup {[home |-> 1, visitor |-> 2, season |-> Season, result |-> "unplayed"],
          [home |-> 1, visitor |-> 2, season |-> Season - 1, result |-> "home"]}

FixtureGame(g, fx) ==
    [id |-> g, date |-> DayOf(g), season |-> fx.season,
     status |-> IF fx.result = "unplayed" THEN "Scheduled" ELSE "Final",
     home_team_id |-> fx.home, visitor_team_id |-> fx.visitor,
     home_team_score |-> CASE fx.result = "home" -> 101
                           [] fx.result = "visitor" -> 99
                           [] OTHER -> Null,
     visitor_team_score |-> CASE fx.result = "home" -> 99
                              [] fx.result = "visitor" -> 101
                              [] OTHER -> Null]

\* a run ingests the next game of the schedule from a box-score line of it
IngestGame ==
    /\ Cardinality(games) < MaxSchedule
    /\ \E fx \in Fixtures :
        LET g == Cardinality(games) + 1
            line == [player_id |-> 1, team_id |-> fx.home, game |-> FixtureGame(g, fx),
                     pts |-> 7]
            feeds == <<FeedOf(<<line>>, 0, "ok")>>
            r == sync_games_for_date_range(
                    [games |-> games, stats |-> stats, sess |-> "active"], feeds, 1, 1)
        IN  /\ games' = r.games
            /\ stats' = r.stats
            /\ obs' = [NoObs EXCEPT !.op = "sync_games", !.input = feeds,
                                    !.raised = r.raised, !.ret = r.ret]
    /\ UNCHANGED <<teams, players, syncLog, pc, sess, local, phaseLog, derived>>

\* GET /teams of the league
LeagueTeams ==
    <<[id |-> 1, abbreviation |-> "WAS", conference |-> "East"],
      [id |-> 2, abbreviation |-> "BOS", conference |-> "East"],
      [id |-> 3, abbreviation |-> "NYK", conference |-> "East"]>>

SyncLeagueTeams ==
    /\ LET r == sync_teams([teams |-> teams, sess |-> "active"], PageOk(LeagueTeams))
       IN  /\ teams' = r.teams
           /\ obs' = [NoObs EXCEPT !.op = "sync_teams", !.input = PageOk(LeagueTeams),
                                   !.raised = r.raised, !.ret = r.ret]
    /\ UNCHANGED <<players, games, stats, syncLog, pc, sess, local, phaseLog, derived>>

(***************************************************************************)
(* sync_team_standings (sync_service.py:361-477).  The scoring averages    *)
(* (lines 397-407) are left out.                                           *)
(***************************************************************************)
\* the rows of a query on games, in primary-key order
RECURSIVE GamesInIdOrder(_)
GamesInIdOrder(rows) ==
    IF rows = {} THEN <<>>
    ELSE LET g == CHOOSE r \in rows : \A q \in rows : r.id <= q.id
         IN  <<g>> \o GamesInIdOrder(rows \ {g})

\* lines 370-374 and 376-380
HomeGames(db, team_id, season) ==
    GamesInIdOrder({g \in db.games : /\ g.home_team_id = team_id
                                      /\ g.season = season
                                      /\ g.home_team_score # Null})

AwayGames(db, team_id, season) ==
    GamesInIdOrder({g \in db.games : /\ g.visitor_team_id = team_id
                                      /\ g.season = season
                                      /\ g.visitor_team_score # Null})

HomeSideWon(g) == g.home_team_score > g.visitor_team_score
VisitorSideWon(g) == g.visitor_team_score > g.home_team_score

\* line 383
HomeWins(home_games) ==
    Cardinality({i \in 1..Len(home_games) : HomeSideWon(home_games[i])})

\* (variant) the away games judged by the home side's comparison
AwayWins_HomeSide(away_games) ==
    Cardinality({i \in 1..Len(away_games) : HomeSideWon(away_games[i])})

\* line 385
AwayWins(away_games) ==
    Cardinality({i \in 1..Len(away_games) : VisitorSideWon(away_games[i])})

\* sorted(gs, key=lambda g: g.date, reverse=True): a stable insertion of
\* each game after the games that are not older than it
RECURSIVE SortedByDateDesc(_)
SortedByDateDesc(gs) ==
    IF gs = <<>> THEN <<>>
    ELSE LET rest == SortedByDateDesc(SubSeq(gs, 1, Len(gs) - 1))
             g == gs[Len(gs)]
             ahead == Cardinality({i \in 1..Len(rest) : rest[i].date >= g.date})
         IN  SubSeq(rest, 1, ahead) \o <<g>> \o SubSeq(rest, ahead + 1, Len(rest))

\* lines 419-422 and 426-429
IsWinOf(game, team_id) ==
    \/ game.home_team_id = team_id /\ game.home_team_score > game.visitor_team_score
    \/ game.visitor_team_id = team_id /\ game.visitor_team_score > game.home_team_score

\* (variant) the loop of lines 425-434 without the break
RECURSIVE StreakCount_NoBreak(_, _, _)
StreakCount_NoBreak(gs, team_id, is_win) ==
    IF gs = <<>> THEN 0
    ELSE (IF IsWinOf(Head(gs), team_id) = is_win THEN 1 ELSE 0)
            + StreakCount_NoBreak(Tail(gs), team_id, is_win)

\* the loop of lines 425-434
RECURSIVE StreakCount(_, _, _)
StreakCount(gs, team_id, is_win) ==
    IF gs = <<>> THEN 0
    ELSE IF IsWinOf(Head(gs), team_id) = is_win
         THEN 1 + StreakCount(Tail(gs), team_id, is_win)
         ELSE 0

\* f"{'W' if is_win else 'L'}{streak_count}", as the letter and the number
StreakText(is_win, streak_count) == <<IF is_win THEN "W" ELSE "L", streak_count>>

\* lines 409-436
CurrentStreak(home_games, away_games, team_id) ==
    LET all_games_chronological == SortedByDateDesc(home_games \o away_games)
    IN  IF all_games_chronological = <<>> THEN <<>>
        ELSE LET is_win == IsWinOf(all_games_chronological[1], team_id)
             IN  StreakText(is_win, StreakCount(all_games_chronological, team_id, is_win))

\* one iteration of "for team in teams"
UpsertStanding(db, acc, team_id, season, now) ==
    LET home_games == HomeGames(db, team_id, season)
        away_games == AwayGames(db, team_id, season)
        home_wins == HomeWins(home_games)
        home_losses == Len(home_games) - home_wins
        away_wins == AwayWins(away_games)
        away_losses == Len(away_games) - away_wins
        total_wins == home_wins + away_wins
        total_losses == home_losses + away_losses
        total_games == total_wins + total_losses
        existing == {i \in 1..Len(db.teamStandings) :
                        /\ db.teamStandings[i].team_id = team_id
                        /\ db.teamStandings[i].season = season}
    IN  IF total_games = 0 THEN acc
        ELSE LET standing ==
                    [team_id |-> team_id, season |-> season,
                     wins |-> total_wins, losses |-> total_losses,
                     win_pct |-> Quotient(total_wins, total_games),
                     home_wins |-> home_wins, home_losses |-> home_losses,
                     away_wins |-> away_wins, away_losses |-> away_losses,
                     current_streak |-> CurrentStreak(home_games, away_games, team_id),
                     last_updated |-> now]
             IN  IF existing # {}
                 THEN [acc EXCEPT
                        !.dirty = Append(@, <<CHOOSE i \in existing :
                                                \A j \in existing : i <= j, standing>>),
                        !.synced = @ + 1]
                 ELSE [acc EXCEPT !.new = Append(@, standing), !.synced = @ + 1]

\* the loop of lines 368-473 over the teams, in primary-key order
RECURSIVE UpsertStandings(_, _, _, _, _)
UpsertStandings(db, acc, team_ids, season, now) ==
    IF team_ids = {} THEN acc
    ELSE LET t == CHOOSE i \in team_ids : \A j \in team_ids : i <= j
         IN  UpsertStandings(db, UpsertStanding(db, acc, t, season, now),
                             team_ids \ {t}, season, now)

\* the whole of sync_team_standings at time now
sync_team_standings(db, season, now) ==
    LET acc == UpsertStandings(db, NoRowsPending, {t.id : t \in db.teams}, season, now)
    IN  [rows |-> ApplyRowUpdates(db.teamStandings, acc.dirty) \o acc.new,
         ret |-> acc.synced]

SyncTeamStandings ==
    /\ clock < MaxClock
    /\ \E season \in SeasonsAsked :
        LET now == clock + 1
            r == sync_team_standings(
                    [teams |-> teams, games |-> games, teamStandings |-> teamStandings],
                    season, now)
        IN  /\ teamStandings' = r.rows
            /\ clock' = now
            /\ obs' = [rowsBefore |-> teamStandings, now |-> now]
                      @@ [NoObs EXCEPT !.op = "sync_team_standings", !.input = season,
                                       !.ret = r.ret]
    /\ UNCHANGED <<teams, players, games, stats, syncLog, pc, sess, local, phaseLog,
                   seasonAverages, headToHead, streaks>>

NextStandings ==
    \/ SyncLeagueTeams
    \/ IngestGame
    \/ SyncTeamStandings

SpecStandings == Init /\ [][NextStandings]_vars

(***************************************************************************)
(* sync_head_to_head (sync_service.py:479-572).  The average scores        *)
(* (lines 533-534) are left out.                                           *)
(***************************************************************************)
\* (variant) the key as the pair (home, visitor), without the sort
MatchupKey_HomeFirst(game) == <<game.home_team_id, game.visitor_team_id>>

\* tuple(sorted([game.home_team_id, game.visitor_team_id])), line 502
MatchupKey(game) ==
    IF game.home_team_id <= game.visitor_team_id
    THEN <<game.home_team_id, game.visitor_team_id>>
    ELSE <<game.visitor_team_id, game.home_team_id>>

\* the default value of the defaultdict (lines 490-498)
NoMatchup ==
    [team1_wins |-> 0, team2_wins |-> 0, last_game |-> Null, last_winner |-> Null,
     last_score |-> <<>>]

\* one iteration of "for game in games" (lines 500-528); matchups is the
\* dictionary as the list of its <<key, value>> items in insertion order
TallyGame(matchups, game) ==
    LET key == MatchupKey(game)
        at == {i \in 1..Len(matchups) : matchups[i][1] = key}
        matchup == IF at = {} THEN NoMatchup ELSE matchups[CHOOSE i \in at : TRUE][2]
        home_won == game.home_team_score > game.visitor_team_score
        counted ==
            IF key[1] = game.home_team_id
            THEN IF home_won THEN [matchup EXCEPT !.team1_wins = @ + 1]
                             ELSE [matchup EXCEPT !.team2_wins = @ + 1]
            ELSE IF home_won THEN [matchup EXCEPT !.team2_wins = @ + 1]
                             ELSE [matchup EXCEPT !.team1_wins = @ + 1]
        tracked ==
            IF counted.last_game = Null \/ game.date > counted.last_game
            THEN [counted EXCEPT
                    !.last_game = game.date,
                    !.last_winner = IF home_won THEN game.home_team_id
                                                ELSE game.visitor_team_id,
                    !.last_score = <<game.home_team_score, game.visitor_team_score>>]
            ELSE counted
    IN  IF at = {} THEN Append(matchups, <<key, tracked>>)
        ELSE [matchups EXCEPT ![CHOOSE i \in at : TRUE] = <<key, tracked>>]

RECURSIVE TallyGames(_, _)
TallyGames(matchups, gs) ==
    IF gs = <<>> THEN matchups
    ELSE TallyGames(TallyGame(matchups, Head(gs)), Tail(gs))

\* one iteration of "for (team1_id, team2_id), data in matchups.items()"
UpsertMatchup(db, acc, item, season, now) ==
    LET team1_id == item[1][1]
        team2_id == item[1][2]
        data == item[2]
        existing == {i \in 1..Len(db.headToHead) :
                        /\ \/ /\ db.headToHead[i].team_1_id = team1_id
                              /\ db.headToHead[i].team_2_id = team2_id
                           \/ /\ db.headToHead[i].team_1_id = team2_id
                              /\ db.headToHead[i].team_2_id = team1_id
                        /\ db.headToHead[i].season = season}
    IN  IF existing # {}
        THEN LET first == CHOOSE i \in existing : \A j \in existing : i <= j
             IN  [acc EXCEPT
                    !.dirty = Append(@, <<first,
                        [db.headToHead[first] EXCEPT
                            !.team_1_wins = data.team1_wins,
                            !.team_2_wins = data.team2_wins,
                            !.last_game_date = data.last_game,
                            !.last_game_winner = data.last_winner,
                            !.last_game_score = data.last_score,
                            !.last_updated = now]>>),
                    !.synced = @ + 1]
        ELSE [acc EXCEPT
                !.new = Append(@, [team_1_id |-> team1_id, team_2_id |-> team2_id,
                                   season |-> season,
                                   team_1_wins |-> data.team1_wins,
                                   team_2_wins |-> data.team2_wins,
                                   last_game_date |-> data.last_game,
                                   last_game_winner |-> data.last_winner,
                                   last_game_score |-> data.last_score,
                                   last_updated |-> now]),
                !.synced = @ + 1]

RECURSIVE UpsertMatchups(_, _, _, _, _)
UpsertMatchups(db, acc, items, season, now) ==
    IF items = <<>> THEN acc
    ELSE UpsertMatchups(db, UpsertMatchup(db, acc, Head(items), season, now),
                        Tail(items), season, now)

\* the whole of sync_head_to_head at time now
sync_head_to_head(db, season, now) ==
    LET gs == GamesInIdOrder({g \in db.games : /\ g.season = season
                                                /\ g.home_team_score # Null})
        matchups == TallyGames(<<>>, gs)
        acc == UpsertMatchups(db, NoRowsPending, matchups, season, now)
    IN  [rows |-> ApplyRowUpdates(db.headToHead, acc.dirty) \o acc.new,
         ret |-> acc.synced]

SyncHeadToHead ==
    /\ clock < MaxClock
    /\ \E season \in SeasonsAsked \cup {Season - 1} :
        LET now == clock + 1
            r == sync_head_to_head([games |-> games, headToHead |-> headToHead],
                                   season, now)
        IN  /\ headToHead' = r.rows
            /\ clock' = now
            /\ obs' = [rowsBefore |-> headToHead, now |-> now]
                      @@ [NoObs EXCEPT !.op = "sync_head_to_head", !.input = season,
                                       !.ret = r.ret]
    /\ UNCHANGED <<teams, players, games, stats, syncLog, pc, sess, local, phaseLog,
                   seasonAverages, teamStandings, streaks>>

NextHeadToHead ==
    \/ IngestGame
    \/ SyncHeadToHead

SpecHeadToHead == Init /\ [][NextHeadToHead]_vars

(***************************************************************************)
(* detect_performance_streaks (sync_service.py:574-703).  Of the metrics   *)
(* of line 587, all treated alike, pts is modelled.  The thresholds are    *)
(* compared in exact arithmetic.                                           *)
(***************************************************************************)
\* default of the parameter min_streak (line 574)
MinStreak == 3
\* days a player counts as recently active (line 579)
ActiveWindowDays == 30
\* limit(10) of the recent-games query (line 603)
RecentGamesLimit == 10
\* fewest recent games looked at (line 605)
MinRecentGames == 5
\* thresholds of lines 615-616, in percent of the season average
HotPercent == 120
ColdPercent == 80

Metrics == {"pts"}

\* the value of a metric in a GameStats row: getattr(game, metric, 0)
MetricValue(line, metric) == line.pts

\* the stored season average of a metric: getattr(season_avg, f'avg_{metric}')
AverageValue(season_avg, metric) == season_avg.avg_pts

\* avg_value * 1.2 and avg_value * 0.8
Scaled(avg_value, percent) == Quotient(avg_value.num * percent, avg_value.den * 100)

\* value >= threshold and value <= threshold
AtLeast(value, threshold) == value * threshold.den >= threshold.num
AtMost(value, threshold) == value * threshold.den <= threshold.num

\* the date of the game of a GameStats row
DateOfLine(db, line) == (CHOOSE g \in db.games : g.id = line.game_id).date

\* lines 581-584: the players with a line in a game of the season played on
\* or after recent_date
ActivePlayers(db, season, recent_date) ==
    {db.stats[i].player_id : i \in {j \in SeasonLines(db, season) :
                                        DateOfLine(db, db.stats[j]) >= recent_date}}

\* order_by(Game.date.desc()): the lines of idx, most recent game first
RECURSIVE LinesByDateDesc(_, _)
LinesByDateDesc(db, idx) ==
    IF idx = {} THEN <<>>
    ELSE LET i == CHOOSE j \in idx : \A k \in idx :
                    \/ DateOfLine(db, db.stats[j]) > DateOfLine(db, db.stats[k])
                    \/ DateOfLine(db, db.stats[j]) = DateOfLine(db, db.stats[k]) /\ j <= k
         IN  <<db.stats[i]>> \o LinesByDateDesc(db, idx \ {i})

\* lines 600-603
RecentGames(db, player_id, season) ==
    LET mine == {i \in SeasonLines(db, season) : db.stats[i].player_id = player_id}
        ordered == LinesByDateDesc(db, mine)
    IN  SubSeq(ordered, 1, Min(Len(ordered), RecentGamesLimit))

\* (variant) the hot loop without the break: a game below the threshold is
\* passed over
RECURSIVE HotValues_NoBreak(_, _, _)
HotValues_NoBreak(recent_games, metric, hot_threshold) ==
    IF recent_games = <<>> THEN <<>>
    ELSE LET value == MetricValue(Head(recent_games), metric)
         IN  (IF AtLeast(value, hot_threshold) THEN <<value>> ELSE <<>>)
                \o HotValues_NoBreak(Tail(recent_games), metric, hot_threshold)

\* the loop of lines 619-627: hot_values; hot_count is its length
RECURSIVE HotValues(_, _, _)
HotValues(recent_games, metric, hot_threshold) ==
    IF recent_games = <<>> THEN <<>>
    ELSE LET value == MetricValue(Head(recent_games), metric)
         IN  IF AtLeast(value, hot_threshold)
             THEN <<value>> \o HotValues(Tail(recent_games), metric, hot_threshold)
             ELSE <<>>

\* the loop of lines 630-638: cold_values
RECURSIVE ColdValues(_, _, _)
ColdValues(recent_games, metric, cold_threshold) ==
    IF recent_games = <<>> THEN <<>>
    ELSE LET value == MetricValue(Head(recent_games), metric)
         IN  IF AtMost(value, cold_threshold)
             THEN <<value>> \o ColdValues(Tail(recent_games), metric, cold_threshold)
             ELSE <<>>

RECURSIVE SumSeq(_)
SumSeq(values) == IF values = <<>> THEN 0 ELSE Head(values) + SumSeq(Tail(values))

\* max(values) and min(values)
MaxOf(values) == CHOOSE v \in Range(values) : \A w \in Range(values) : w <= v
MinOf(values) == CHOOSE v \in Range(values) : \A w \in Range(values) : v <= w

\* (variant) the store without the lookup of lines 642-648: always a new row
StoreStreak_NoLookup(db, acc, player_id, season, metric, streak_type, threshold, values, recent_games, now) ==
    [acc EXCEPT
        !.new = Append(@,
            [player_id |-> player_id, season |-> season, metric |-> metric,
             streak_type |-> streak_type, threshold |-> threshold,
             current_streak |-> Len(values),
             streak_start_date |-> DateOfLine(db, recent_games[Len(values)]),
             best_performance |-> IF streak_type = "hot" THEN MaxOf(values)
                                                         ELSE MinOf(values),
             avg_performance |-> Quotient(SumSeq(values), Len(values)),
             is_active |-> TRUE, last_updated |-> now]),
        !.synced = @ + 1]

\* lines 642-669 (streak_type hot) and 672-699 (cold): the active row of the
\* type is looked up; a found row takes the new count, best and average, a
\* missing one is added
StoreStreak(db, acc, player_id, season, metric, streak_type, threshold, values, recent_games, now) ==
    LET existing == {i \in 1..Len(db.streaks) :
                        /\ db.streaks[i].player_id = player_id
                        /\ db.streaks[i].season = season
                        /\ db.streaks[i].metric = metric
                        /\ db.streaks[i].streak_type = streak_type
                        /\ db.streaks[i].is_active}
        best == IF streak_type = "hot" THEN MaxOf(values) ELSE MinOf(values)
        average == Quotient(SumSeq(values), Len(values))
    IN  IF existing # {}
        THEN LET first == CHOOSE i \in existing : \A j \in existing : i <= j
             IN  [acc EXCEPT
                    !.dirty = Append(@, <<first,
                        [db.streaks[first] EXCEPT
                            !.current_streak = Len(values),
                            !.best_performance = best,
                            !.avg_performance = average,
                            !.last_updated = now]>>),
                    !.synced = @ + 1]
        ELSE [acc EXCEPT
                !.new = Append(@,
                    [player_id |-> player_id, season |-> season, metric |-> metric,
                     streak_type |-> streak_type, threshold |-> threshold,
                     current_streak |-> Len(values),
                     streak_start_date |-> DateOfLine(db, recent_games[Len(values)]),
                     best_performance |-> best, avg_performance |-> average,
                     is_active |-> TRUE, last_updated |-> now]),
                !.synced = @ + 1]

\* the body of "for metric in metrics" (lines 610-699)
CheckMetric(db, acc, player_id, season, metric, season_avg, recent_games, min_streak, now) ==
    LET avg_value == AverageValue(season_avg, metric)
        hot_threshold == Scaled(avg_value, HotPercent)
        cold_threshold == Scaled(avg_value, ColdPercent)
        hot_values == HotValues(recent_games, metric, hot_threshold)
        cold_values == ColdValues(recent_games, metric, cold_threshold)
    IN  IF avg_value.num = 0 THEN acc
        ELSE IF Len(hot_values) >= min_streak
        THEN StoreStreak(db, acc, player_id, season, metric, "hot", hot_threshold,
                         hot_values, recent_games, now)
        ELSE IF Len(cold_values) >= min_streak
        THEN StoreStreak(db, acc, player_id, season, metric, "cold", cold_threshold,
                         cold_values, recent_games, now)
        ELSE acc

RECURSIVE CheckMetrics(_, _, _, _, _, _, _, _, _)
CheckMetrics(db, acc, player_id, season, metrics, season_avg, recent_games, min_streak, now) ==
    IF metrics = {} THEN acc
    ELSE LET metric == CHOOSE m \in metrics : TRUE
         IN  CheckMetrics(db,
                CheckMetric(db, acc, player_id, season, metric, season_avg, recent_games,
                            min_streak, now),
                player_id, season, metrics \ {metric}, season_avg, recent_games,
                min_streak, now)

\* the body of "for (player_id,) in active_players" (lines 590-699)
CheckPlayer(db, acc, player_id, season, min_streak, now) ==
    LET found == {i \in 1..Len(db.seasonAverages) :
                    /\ db.seasonAverages[i].player_id = player_id
                    /\ db.seasonAverages[i].season = season}
        recent_games == RecentGames(db, player_id, season)
    IN  IF found = {} THEN acc
        ELSE IF Len(recent_games) < MinRecentGames THEN acc
        ELSE CheckMetrics(db, acc, player_id, season, Metrics,
                db.seasonAverages[CHOOSE i \in found : \A j \in found : i <= j],
                recent_games, min_streak, now)

RECURSIVE CheckPlayers(_, _, _, _, _, _)
CheckPlayers(db, acc, player_ids, season, min_streak, now) ==
    IF player_ids = {} THEN acc
    ELSE LET p == CHOOSE i \in player_ids : \A j \in player_ids : i <= j
         IN  CheckPlayers(db, CheckPlayer(db, acc, p, season, min_streak, now),
                          player_ids \ {p}, season, min_streak, now)

\* the whole of detect_performance_streaks on the day today, at time now
detect_performance_streaks(db, season, min_streak, today, now) ==
    LET recent_date == today - ActiveWindowDays
        acc == CheckPlayers(db, NoRowsPending, ActivePlayers(db, season, recent_date),
                            season, min_streak, now)
    IN  [rows |-> ApplyRowUpdates(db.streaks, acc.dirty) \o acc.new, ret |-> acc.synced]

(***************************************************************************)
(* Runs of sync_season_averages and detect_performance_streaks between     *)
(* ingestion runs (POST /sync/goat-daily, main.py:667-686).                *)
(***************************************************************************)
\* a quiet game or a big game; the game of the season before was a quiet one
PointsQuietOrBig ==
    [p \in PlayerIds |-> [g \in 1..MaxStatGames |-> IF g = 1 THEN {0} ELSE {0, 10}]]

\* the day of the run: the day after the last game of the schedule, or a day
\* by which every game is older than the activity window
RunDays == {MaxStatGames + 1, MaxStatGames + 1 + 2 * ActiveWindowDays}

DetectStreaks ==
    /\ clock < MaxClock
    /\ \E season \in SeasonsAsked, today \in RunDays :
        LET now == clock + 1
            r == detect_performance_streaks(
                    [games |-> games, stats |-> stats, seasonAverages |-> seasonAverages,
                     streaks |-> streaks],
                    season, MinStreak, today, now)
        IN  /\ streaks' = r.rows
            /\ clock' = now
            /\ obs' = [rowsBefore |-> streaks, now |-> now, today |-> today]
                      @@ [NoObs EXCEPT !.op = "detect_performance_streaks",
                                       !.input = season, !.ret = r.ret]
    /\ UNCHANGED <<teams, players, games, stats, syncLog, pc, sess, local, phaseLog,
                   seasonAverages, teamStandings, headToHead>>

NextStreaks ==
    \/ IngestStatLine({1}, PointsQuietOrBig)
    \/ SyncSeasonAverages
    \/ DetectStreaks

SpecStreaks == Init /\ [][NextStreaks]_vars

(***************************************************************************)
(* perform_daily_sync (sync_service.py:717-765) inside get_db_context      *)
(* (db_session.py:50-61).                                                  *)
(***************************************************************************)
\* the phases in the order of the awaits at lines 724-739
PhaseOrder ==
    <<"SyncingTeams", "SyncingPlayers", "SyncingGamesAndStats",
      "SeasonAverages", "TeamStandings", "HeadToHead", "Streaks">>

AggregationPhases == {"SeasonAverages", "TeamStandings", "HeadToHead", "Streaks"}

PhaseIndex(phase) == CHOOSE i \in 1..Len(PhaseOrder) : PhaseOrder[i] = phase

\* (variant) the player sync left out of the sequence of awaits
PhaseAfter_SkipPlayers(phase) ==
    IF phase = "SyncingTeams" THEN "SyncingGamesAndStats"
    ELSE IF PhaseIndex(phase) < Len(PhaseOrder)
    THEN PhaseOrder[PhaseIndex(phase) + 1]
    ELSE "Logging"

\* where control goes when the await of phase returns
PhaseAfter(phase) ==
    IF PhaseIndex(phase) < Len(PhaseOrder)
    THEN PhaseOrder[PhaseIndex(phase) + 1]
    ELSE "Logging"

\* len(str(e)): the text of an HTTP error or a TypeError is short, the text
\* of a database error carries the statement and its parameters
ErrorTextLen(e) ==
    CASE e \in {"IntegrityError", "PendingRollbackError", "DataError"} -> 900
      [] OTHER -> 120

\* str(e)[:500]
Truncated(len) == Min(len, ErrorTextLimit)

\* the scheduler or POST /sync/daily starts an invocation: with get_db_context()
StartDailySync ==
    /\ pc \in {"Idle", "Done", "Failed"}
    /\ local.n < MaxInvocations
    /\ pc' = PhaseOrder[1]
    /\ sess' = "active"
    /\ local' = [NoLocal EXCEPT !.n = local.n + 1, !.logStart = Len(syncLog)]
    /\ phaseLog' = <<>>
    /\ UNCHANGED <<teams, players, games, stats, syncLog, obs, derived>>

\* the await of the current phase returned
Returns(phase) ==
    /\ pc' = PhaseAfter(phase)
    /\ phaseLog' = Append(phaseLog, phase)

\* the await of the current phase raised e: control enters the except block
Raises(e) ==
    /\ pc' = "Handling"
    /\ phaseLog' = phaseLog

DailyTeamAnswers ==
    {PageErr(e) : e \in FetchErrors}
    \cup {PageOk(resp) : resp \in
            {<<[id |-> 1, abbreviation |-> "WAS", conference |-> "East"]>>,
             <<[id |-> 1, abbreviation |-> "WAS", conference |-> "East"],
               [id |-> 2, abbreviation |-> "BOS", conference |-> "East"]>>,
             <<[id |-> 1, abbreviation |-> "WAS", conference |-> "East"],
               [id |-> 2, abbreviation |-> "WAS", conference |-> "East"]>>}}

TeamsPhase ==
    /\ pc = "SyncingTeams"
    /\ \E answer \in DailyTeamAnswers :
        LET r == sync_teams([teams |-> teams, sess |-> sess], answer)
        IN  /\ teams' = r.teams
            /\ sess' = r.sess
            /\ local' = [local EXCEPT !.error = r.raised,
                                      !.rejected = @ \/ answer.err = "unauthorized"]
            /\ IF r.raised = "none" THEN Returns("SyncingTeams") ELSE Raises(r.raised)
    /\ UNCHANGED <<players, games, stats, syncLog, obs, derived>>

DailyPlayerFeeds ==
    {FeedOf(<<[id |-> 1, team |-> 1], [id |-> 2, team |-> 2]>>, failAt, e) :
        failAt \in 0..2, e \in FetchErrors}

PlayersPhase ==
    /\ pc = "SyncingPlayers"
    /\ \E feed \in DailyPlayerFeeds :
        LET r == sync_players([players |-> players, sess |-> sess], feed)
        IN  /\ players' = r.players
            /\ sess' = r.sess
            /\ local' = [local EXCEPT !.error = r.raised,
                                      !.rejected = @ \/ r.raised = "unauthorized"]
            /\ IF r.raised = "none" THEN Returns("SyncingPlayers") ELSE Raises(r.raised)
    /\ UNCHANGED <<teams, games, stats, syncLog, obs, derived>>

\* a box score whose last record came without its game sub-object, after the
\* lines of one or of two players
UnlinkedFeeds ==
    {FeedOf(Append(b, [player_id |-> 2, team_id |-> 2, pts |-> 7]), 0, "ok") :
        b \in {<<StatRecord(1, 1, [final |-> TRUE, pts |-> 7])>>,
                <<StatRecord(1, 1, [final |-> TRUE, pts |-> 7]),
                  StatRecord(2, 1, [final |-> TRUE, pts |-> 7])>>}}

\* yesterday's feed; the date itself plays no part and is day 1.  local.staged
\* is what the phase leaves pending in the session when it raises.
GamesPhase ==
    /\ pc = "SyncingGamesAndStats"
    /\ \E feed \in OkFeeds \cup FailingFeeds(FetchErrors) \cup UnlinkedFeeds :
        LET r == sync_games_for_date_range(
                    [games |-> games, stats |-> stats, sess |-> sess], <<feed>>, 1, 1)
        IN  /\ games' = r.games
            /\ stats' = r.stats
            /\ sess' = r.sess
            /\ local' = [local EXCEPT
                            !.error = r.raised,
                            !.games_synced = r.ret,
                            !.staged = r.staged,
                            !.rejected = @ \/ "unauthorized" \in Range(r.fetched.swallowed),
                            !.absorbed = @ + Len(r.fetched.swallowed)]
            /\ IF r.raised = "none" THEN Returns("SyncingGamesAndStats")
                                    ELSE Raises(r.raised)
    /\ UNCHANGED <<teams, players, syncLog, obs, derived>>

\* the four derived-table phases: each reads the raw tables, writes its own
\* table and commits, or raises out of its computation
AggregationPhase ==
    /\ pc \in AggregationPhases
    /\ \E e \in {"none", "TypeError"} :
        /\ local' = [local EXCEPT !.error = e]
        /\ IF e = "none" THEN Returns(pc) ELSE Raises(e)
    /\ UNCHANGED <<teams, players, games, stats, syncLog, sess, obs, derived>>

\* lines 742-752, then the commit and close of get_db_context
LogSuccess ==
    /\ pc = "Logging"
    /\ syncLog' = Append(syncLog, [season |-> Season, games_synced |-> local.games_synced,
                                   status |-> "success", error_len |-> 0])
    /\ pc' = "Done"
    /\ sess' = "closed"
    /\ UNCHANGED <<teams, players, games, stats, local, phaseLog, obs, derived>>

\* lines 754-765: the except block adds the failed row and commits on the
\* session as the failed phase left it, without a rollback: the commit
\* flushes whatever is pending in the session, the row of the log last.  On an
\* inactive session, or when the flush fails, the commit raises,
\* get_db_context rolls back and the exception leaves the invocation.
HandleFailure ==
    /\ pc = "Handling"
    /\ LET r == CommitGames([games |-> games, stats |-> stats], local.staged)
       IN  IF sess = "active" /\ r.raised = "none"
           THEN /\ games' = r.games
                /\ stats' = r.stats
                /\ syncLog' = Append(syncLog,
                      [season |-> Season, games_synced |-> 0, status |-> "failed",
                       error_len |-> Truncated(ErrorTextLen(local.error))])
           ELSE UNCHANGED <<games, stats, syncLog>>
    /\ pc' = "Failed"
    /\ sess' = "closed"
    /\ UNCHANGED <<teams, players, local, phaseLog, obs, derived>>

NextDaily ==
    \/ StartDailySync
    \/ TeamsPhase
    \/ PlayersPhase
    \/ GamesPhase
    \/ AggregationPhase
    \/ LogSuccess
    \/ HandleFailure

SpecDaily == Init /\ [][NextDaily]_vars

(***************************************************************************)
(* calculate_rolling_metric (main.py:84-178), the function behind          *)
(* POST /analytics/metric-rate (main.py:253-296).  A game of the list is a *)
(* GameStats row joined with its game: the date, the value of the metric,  *)
(* is_home and the abbreviations of the two teams ("none": no team row).   *)
(* A rate is kept in tenths of a percent: 400 stands for 40.0.             *)
(***************************************************************************)
\* longest game list of the generic requests
MaxRollingGames == 3

GameDates == {1, 2}
PointsScored == {24, 25}
Thresholds == {25}
\* where the player's team played: at home, away, away at a team without row
Venues ==
    { [is_home |-> TRUE, home_team |-> "LAL", visitor_team |-> "BOS"],
      [is_home |-> FALSE, home_team |-> "BOS", visitor_team |-> "LAL"],
      [is_home |-> FALSE, home_team |-> "none", visitor_team |-> "LAL"] }

RollingGame(date, pts, venue) == [date |-> date, pts |-> pts, is_home |-> venue.is_home, home_team |-> venue.home_team, visitor_team |-> venue.visitor_team]

RollingGames == {RollingGame(d, v, venue) : d \in GameDates, v \in PointsScored, venue \in Venues}

\* twelve games of one player and season, one a day
ScenarioPoints == <<30, 28, 31, 29, 10, 12, 8, 9, 25, 27, 24, 26>>
ScenarioWindow == {10}
ScenarioGames ==
    [i \in 1..Len(ScenarioPoints) |->
        RollingGame(i, ScenarioPoints[i],
                    [is_home |-> i % 2 = 0, home_team |-> IF i % 2 = 0 THEN "LAL" ELSE "BOS",
                     visitor_team |-> IF i % 2 = 0 THEN "BOS" ELSE "LAL"])]

\* the rows of the scenario as a query may return them: the first ones in
\* date order, or all of them latest first
ScenarioLists ==
    {SubSeq(ScenarioGames, 1, m) : m \in 1..Len(ScenarioGames)}
        \cup {[i \in 1..Len(ScenarioGames) |-> ScenarioGames[Len(ScenarioGames) + 1 - i]]}

GameLists == SeqsUpTo(RollingGames, MaxRollingGames) \cup ScenarioLists
\* window_size: int = Query(10) accepts every integer (main.py:259)
WindowSizes == ((0 - 2) .. (MaxRollingGames + 1)) \cup ScenarioWindow

\* Python's a // b for a >= 0 and b # 0: the quotient rounded down
FloorDiv(a, b) == IF b > 0 THEN a \div b ELSE 0 - ((a + (0 - b) - 1) \div (0 - b))

\* round((num / den) * 100, 1) in tenths, for num >= 0 and den > 0: to the
\* nearest tenth, a tie to the even one
RoundTenths(num, den) ==
    LET x == 1000 * num
        q == x \div den
        r == x % den
    IN  IF 2 * r < den THEN q
        ELSE IF 2 * r > den THEN q + 1
        ELSE IF q % 2 = 0 THEN q ELSE q + 1

\* sorted(games, key=lambda x: x.game.date), line 97: stable
RECURSIVE InsertByDate(_, _)
InsertByDate(sorted, g) ==
    IF sorted = <<>> THEN <<g>>
    ELSE IF Head(sorted).date <= g.date
         THEN <<Head(sorted)>> \o InsertByDate(Tail(sorted), g)
         ELSE <<g>> \o sorted

RECURSIVE sorted_games(_)
sorted_games(game_list) ==
    IF game_list = <<>> THEN <<>>
    ELSE InsertByDate(sorted_games(SubSeq(game_list, 1, Len(game_list) - 1)),
                      game_list[Len(game_list)])

\* variant: a last window is made of the games that are left over
num_windows_Ceiling(n, window_size) == 0 - FloorDiv(n, 0 - window_size)

\* line 107
num_windows(n, window_size) == FloorDiv(n, window_size)

\* variant: a value equal to the threshold does not meet it
met_threshold_Above(game_stat, threshold) == game_stat.pts > threshold

\* lines 115 and 136
met_threshold(game_stat, threshold) == game_stat.pts >= threshold

\* line 115
threshold_count(window_games, threshold) == Cardinality({i \in 1..Len(window_games) : met_threshold(window_games[i], threshold)})

\* lines 127-135
opponent_abbr(game_stat) ==
    LET opponent == IF game_stat.is_home THEN game_stat.visitor_team
                    ELSE game_stat.home_team
    IN  IF opponent = "none" THEN "UNK" ELSE opponent

\* sorted_games[start_idx:end_idx], line 113: a slice stops at the end
window_games(sorted, window_num, window_size) == SubSeq(sorted, window_num * window_size + 1, Min(Len(sorted), (window_num + 1) * window_size))

\* lines 118-157: the entry of one window
window_info(sorted, window_num, window_size, threshold) ==
    LET in_window == window_games(sorted, window_num, window_size)
        hits == threshold_count(in_window, threshold)
    IN  [games |-> <<window_num * window_size + 1, (window_num + 1) * window_size>>,
         threshold_met |-> hits,
         rate |-> RoundTenths(hits, window_size),
         details |-> [i \in 1..Len(in_window) |->
                        [date |-> in_window[i].date,
                         opponent |-> opponent_abbr(in_window[i]),
                         value |-> in_window[i].pts,
                         met_threshold |-> met_threshold(in_window[i], threshold),
                         location |-> IF in_window[i].is_home THEN "home" ELSE "away"]]]

\* the games the loop of lines 110-157 walks through, window after window
RECURSIVE GamesWalked(_, _, _)
GamesWalked(sorted, windows, window_size) ==
    IF windows <= 0 THEN <<>>
    ELSE GamesWalked(sorted, windows - 1, window_size)
            \o window_games(sorted, windows - 1, window_size)

\* variant: the splits count every game of the list
GamesCounted_All(sorted, windows, window_size) == sorted

\* the games that lines 139-146 count in the splits and the breakdown
GamesCounted(sorted, windows, window_size) == GamesWalked(sorted, windows, window_size)

\* lines 139-142 and 162-165: one side of the home/away split
location_split(counted, is_home, threshold) ==
    LET here == {i \in 1..Len(counted) : counted[i].is_home = is_home}
        hits == {i \in here : met_threshold(counted[i], threshold)}
    IN  [games |-> Cardinality(here), threshold_met |-> Cardinality(hits),
         rate |-> IF Cardinality(here) > 0
                  THEN RoundTenths(Cardinality(hits), Cardinality(here)) ELSE Null]

\* lines 144-146: the defaultdict, its keys in the order of their first game
RECURSIVE opponent_breakdown(_, _)
opponent_breakdown(counted, threshold) ==
    IF counted = <<>> THEN <<>>
    ELSE LET before == opponent_breakdown(SubSeq(counted, 1, Len(counted) - 1), threshold)
             g == counted[Len(counted)]
             hit == IF met_threshold(g, threshold) THEN 1 ELSE 0
             at == {i \in 1..Len(before) : before[i].opponent = opponent_abbr(g)}
         IN  IF at = {}
             THEN Append(before, [opponent |-> opponent_abbr(g), games |-> 1,
                                  threshold_met |-> hit])
             ELSE [i \in 1..Len(before) |->
                     IF i \in at
                     THEN [before[i] EXCEPT !.games = @ + 1, !.threshold_met = @ + hit]
                     ELSE before[i]]

\* sorted(opponent_list, key=games, reverse=True), line 176: stable
RECURSIVE InsertByGames(_, _)
InsertByGames(sorted, e) ==
    IF sorted = <<>> THEN <<e>>
    ELSE IF Head(sorted).games >= e.games
         THEN <<Head(sorted)>> \o InsertByGames(Tail(sorted), e)
         ELSE <<e>> \o sorted

RECURSIVE opponent_list(_)
opponent_list(breakdown) ==
    IF breakdown = <<>> THEN <<>>
    ELSE LET e == breakdown[Len(breakdown)]
         IN  InsertByGames(opponent_list(SubSeq(breakdown, 1, Len(breakdown) - 1)),
                           [opponent |-> e.opponent, games |-> e.games,
                            threshold_met |-> e.threshold_met,
                            rate |-> RoundTenths(e.threshold_met, e.games)])

RECURSIVE SumHits(_)
SumHits(infos) == IF infos = <<>> THEN 0 ELSE infos[1].threshold_met + SumHits(Tail(infos))

\* lines 84-178.  A division by zero (lines 107 and 160) raises
\* ZeroDivisionError.
calculate_rolling_metric(game_list, threshold, window_size) ==
    IF Len(game_list) < window_size
    THEN [kind |-> "insufficient", games_played |-> Len(game_list)]
    ELSE IF window_size = 0 THEN [kind |-> "ZeroDivisionError"]
    ELSE LET sorted == sorted_games(game_list)
             windows == num_windows(Len(sorted), window_size)
             infos == [k \in 1..windows |-> window_info(sorted, k - 1, window_size, threshold)]
             total_threshold_met == SumHits(infos)
             total_games_in_windows == windows * window_size
             counted == GamesCounted(sorted, windows, window_size)
         IN  IF total_games_in_windows = 0 THEN [kind |-> "ZeroDivisionError"]
             ELSE [kind |-> "report",
                   total_games |-> Len(sorted),
                   windows_analyzed |-> infos,
                   overall_rate |-> RoundTenths(total_threshold_met, total_games_in_windows),
                   home_away_splits |->
                       [home |-> location_split(counted, TRUE, threshold),
                        away |-> location_split(counted, FALSE, threshold)],
                   opponent_breakdown |->
                       opponent_list(opponent_breakdown(counted, threshold))]

\* the requests: a game list, a threshold and a window size
InitRolling ==
    /\ teams = {}
    /\ players = {}
    /\ games = {}
    /\ stats = <<>>
    /\ syncLog = <<>>
    /\ pc = "Idle"
    /\ sess = "closed"
    /\ local = NoLocal
    /\ phaseLog = <<>>
    /\ \E game_list \in GameLists, threshold \in Thresholds, window_size \in WindowSizes :
          obs = [game_list |-> game_list, threshold |-> threshold,
                 window_size |-> window_size, report |-> [kind |-> "none"]]
                @@ [NoObs EXCEPT !.op = "request"]
    /\ seasonAverages = <<>>
    /\ teamStandings = <<>>
    /\ headToHead = <<>>
    /\ streaks = <<>>
    /\ clock = 0

\* a direct call of the function
CalculateRollingMetric ==
    /\ obs.op = "request"
    /\ obs' = [obs EXCEPT !.op = "calculate_rolling_metric",
                          !.report = calculate_rolling_metric(obs.game_list, obs.threshold,
                                                              obs.window_size)]
    /\ UNCHANGED <<teams, players, games, stats, syncLog, pc, sess, local, phaseLog, derived>>

\* the endpoint, lines 285-288: no games is a 404, otherwise the function's
\* result is the "analytics" of the answer
AnalyzeMetricRate ==
    /\ obs.op = "request"
    /\ obs' = IF obs.game_list = <<>>
              THEN [obs EXCEPT !.op = "analyze_metric_rate", !.raised = "HTTPException404"]
              ELSE [obs EXCEPT !.op = "analyze_metric_rate",
                               !.report = calculate_rolling_metric(obs.game_list,
                                              obs.threshold, obs.window_size)]
    /\ UNCHANGED <<teams, players, games, stats, syncLog, pc, sess, local, phaseLog, derived>>

NextRolling ==
    \/ CalculateRollingMetric
    \/ AnalyzeMetricRate

SpecRolling == InitRolling /\ [][NextRolling]_vars

(***************************************************************************)
(* The seven operations of DataSyncService side by side, each on a session *)
(* of its own: the three that ingest (sync_service.py:48-238) and the four *)
(* that derive (lines 244-703).  Player 1 plays a short season, and the    *)
(* derived tables are computed once it has games enough for every one of   *)
(* them to have rows to write.                                             *)
(***************************************************************************)
\* three quiet games, then four big ones, then no more
SeasonPoints ==
    [p \in PlayerIds |->
        [g \in 1..MaxStatGames |-> IF g <= 3 THEN {0} ELSE IF g <= 7 THEN {30} ELSE {}]]

RosterFeeds ==
    {FeedOf(<<[id |-> 1, team |-> 1]>>, 0, "ok"),
     FeedOf(<<[id |-> 1, team |-> NoTeam], [id |-> 2, team |-> 2]>>, 0, "ok")}

SyncRoster ==
    \E feed \in RosterFeeds :
        LET r == sync_players([players |-> players, sess |-> "active"], feed)
        IN  /\ players' = r.players
            /\ obs' = [NoObs EXCEPT !.op = "sync_players", !.input = feed,
                                    !.raised = r.raised, !.ret = r.ret]
            /\ UNCHANGED <<teams, games, stats, syncLog, pc, sess, local, phaseLog, derived>>

SeasonUnderWay == Cardinality(LinesOf(stats, 1)) > MinGamesPlayed

NextOwnership ==
    \/ SyncLeagueTeams
    \/ SyncRoster
    \/ IngestStatLine({1}, SeasonPoints)
    \/ SeasonUnderWay /\ SyncSeasonAverages
    \/ SeasonUnderWay /\ SyncTeamStandings
    \/ SeasonUnderWay /\ SyncHeadToHead
    \/ SeasonUnderWay /\ DetectStreaks

SpecOwnership == Init /\ [][NextOwnership]_vars

(***************************************************************************)
(* A call of sync_games_for_date_range over a range of dates               *)
(* (sync_recent_games, sync_service.py:709-715; POST /sync/initial-setup,  *)
(* main.py:688-719).  On date d the provider has the box-score lines of    *)
(* game d, and may fail one request.                                       *)
(***************************************************************************)
\* dates of the calendar
MaxRangeDays == 3

RangeDays == 1..MaxRangeDays

\* n lines of date d: of the players 1..n in one game, or of player 1 in n
\* games (the provider's dates[] filter is by the game's date)
DayBatch(d, n, one_game) == [k \in 1..n |-> [player_id |-> IF one_game THEN k ELSE 1, team_id |-> 1, game |-> [game_data(IF one_game THEN d * (PerPage + 1) ELSE d * (PerPage + 1) + k, TRUE) EXCEPT !.date = d], pts |-> 7]]

\* no line, a short page of lines or a full page of lines, and the first or
\* the second request failing or none
DayFeeds(d) == {FeedOf(DayBatch(d, n, one_game), failAt, "upstream") : n \in {0, PerPage - 1, PerPage}, one_game \in BOOLEAN, failAt \in 0..2}

\* a feed for each of the dates 1..d
RECURSIVE FeedsUpTo(_)
FeedsUpTo(d) ==
    IF d = 0 THEN {<<>>}
    ELSE {Append(feeds, feed) : feeds \in FeedsUpTo(d - 1), feed \in DayFeeds(d)}

RangeFeeds == FeedsUpTo(MaxRangeDays)

SyncDateRange ==
    /\ obs.op = "none"
    /\ \E feeds \in RangeFeeds, start_date \in RangeDays, end_date \in RangeDays :
        LET r == sync_games_for_date_range(
                    [games |-> games, stats |-> stats, sess |-> "active"],
                    feeds, start_date, end_date)
        IN  /\ games' = r.games
            /\ stats' = r.stats
            /\ obs' = [start_date |-> start_date, end_date |-> end_date,
                       requests |-> r.fetched.requests, all_stats |-> r.fetched.all_stats,
                       swallowed |-> r.fetched.swallowed]
                      @@ [NoObs EXCEPT !.op = "sync_games", !.input = feeds,
                                       !.raised = r.raised, !.ret = r.ret]
    /\ UNCHANGED <<teams, players, syncLog, pc, sess, local, phaseLog, derived>>

NextRange == SyncDateRange

SpecRange == Init /\ [][NextRange]_vars

(***************************************************************************)
(* Overlapping invocations.  The scheduler (scheduler.py:15-41) is a       *)
(* process of its own and POST /sync/daily and /sync/initial-setup         *)
(* (main.py:655-665, 688-719) run in the API process, each invocation on a *)
(* session of its own: the statements of their upsert loops                *)
(* (sync_service.py:182-236) reach the database in any order, and a query  *)
(* sees what is committed when it runs.  Under this specification local    *)
(* holds the invocations in flight.                                        *)
(***************************************************************************)
\* invocations started in all
MaxOverlapRuns == 3

Invokers == {"scheduler", "api"}

\* yesterday's box score as the provider serves it: the line of player 1,
\* then also the line of player 2
OverlapBatches ==
    {<<StatRecord(1, 1, [final |-> TRUE, pts |-> 7])>>,
     <<StatRecord(1, 1, [final |-> TRUE, pts |-> 7]),
       StatRecord(2, 1, [final |-> TRUE, pts |-> 7])>>}

NotRunning == [at |-> "idle", all_stats |-> <<>>, acc |-> NothingPending]

InitOverlap ==
    /\ teams = {}
    /\ players = {}
    /\ games = {}
    /\ stats = <<>>
    /\ syncLog = <<>>
    /\ pc = "Idle"
    /\ sess = "closed"
    /\ local = [started |-> 0, of |-> [i \in Invokers |-> NotRunning]]
    /\ phaseLog = <<>>
    /\ obs = NoObs
    /\ seasonAverages = <<>>
    /\ teamStandings = <<>>
    /\ headToHead = <<>>
    /\ streaks = <<>>
    /\ clock = 0

\* lines 145-177: the invocation has fetched yesterday's records
FetchedBy(i) ==
    /\ local.of[i].at = "idle"
    /\ local.started < MaxOverlapRuns
    /\ \E batch \in OverlapBatches :
          local' = [local EXCEPT !.started = @ + 1,
                                 !.of[i] = [at |-> "loop", all_stats |-> batch,
                                            acc |-> NothingPending]]
    /\ UNCHANGED <<teams, players, games, stats, syncLog, pc, sess, phaseLog, obs, derived>>

\* lines 182-234: one iteration of the loop, its queries answered from the
\* rows committed by now
UpsertBy(i) ==
    /\ local.of[i].at = "loop"
    /\ local.of[i].all_stats # <<>>
    /\ local' = [local EXCEPT
                    !.of[i].acc = UpsertStat([games |-> games, stats |-> stats], @,
                                             Head(local.of[i].all_stats)),
                    !.of[i].all_stats = Tail(@)]
    /\ UNCHANGED <<teams, players, games, stats, syncLog, pc, sess, phaseLog, obs, derived>>

\* line 236: the commit, and the end of the invocation
CommitBy(i) ==
    /\ local.of[i].at = "loop"
    /\ local.of[i].all_stats = <<>>
    /\ LET r == CommitGames([games |-> games, stats |-> stats], local.of[i].acc)
       IN  /\ games' = r.games
           /\ stats' = r.stats
           /\ obs' = [by |-> i, overlapped |-> \E j \in Invokers : j # i /\ local.of[j].at = "loop"]
                     @@ [NoObs EXCEPT !.op = "sync_games", !.raised = r.raised, !.ret = r.ret]
    /\ local' = [local EXCEPT !.of[i] = NotRunning]
    /\ UNCHANGED <<teams, players, syncLog, pc, sess, phaseLog, derived>>

NextOverlap ==
    \/ \E i \in Invokers : FetchedBy(i)
    \/ \E i \in Invokers : UpsertBy(i)
    \/ \E i \in Invokers : CommitBy(i)

SpecOverlap == InitOverlap /\ [][NextOverlap]_vars

(***************************************************************************)
(* Properties of sync_games_for_date_range, checked under SpecGames.       *)
(***************************************************************************)
GameIdsStored == {g.id : g \in games}

\* the (player_id, game_id) pair of a provider record and of a stored row
PairOfRecord(rec) == <<rec.player_id, rec.game.id>>
PairOfRow(row) == <<row.player_id, row.game_id>>

\* C1: a sync_games_for_date_range run that gets the same provider answers as
\* the run before it inserts no GameStats row and no Game row.
C1_SecondRunInsertsNothing ==
    (obs.op = "sync_games" /\ obs.repeat) =>
        /\ Len(stats) = obs.statsBefore
        /\ GameIdsStored = obs.gamesBefore

\* a repeated run that returned, over a batch whose rows the first run stored
C1_Witness ==
    /\ obs.op = "sync_games"
    /\ obs.repeat
    /\ obs.raised = "none"
    /\ AllStatsOf(obs.input) # <<>>
    /\ \A i \in 1..Len(AllStatsOf(obs.input)) :
          \E k \in 1..Len(stats) : PairOfRow(stats[k]) = PairOfRecord(AllStatsOf(obs.input)[i])

\* C2: in every committed state there is at most one GameStats row per
\* (player_id, game_id).
C2_OneStatRowPerPair ==
    \A i, j \in 1..Len(stats) : i # j => PairOfRow(stats[i]) # PairOfRow(stats[j])

\* C3: a run whose batch holds records of two different players that embed
\* the same game id, not yet stored, returns without error, stores exactly one
\* Game row for the id and a GameStats row for every record.
C3_SharedNewGameIngested ==
    obs.op = "sync_games" =>
        LET batch == AllStatsOf(obs.input)
        IN  (\E i, j \in 1..Len(batch) :
                /\ batch[i].player_id # batch[j].player_id
                /\ batch[i].game.id = batch[j].game.id
                /\ batch[i].game.id \notin obs.gamesBefore)
            => /\ obs.raised = "none"
               /\ \A i \in 1..Len(batch) :
                    /\ Cardinality({g \in games : g.id = batch[i].game.id}) = 1
                    /\ \E k \in 1..Len(stats) : PairOfRow(stats[k]) = PairOfRecord(batch[i])

\* C4: after a run that returned, the Game row of an id that was stored before
\* the run carries the status and the scores the provider reported in the run.
C4_StoredGameRefreshed ==
    (obs.op = "sync_games" /\ obs.raised = "none") =>
        LET batch == AllStatsOf(obs.input)
        IN  \A i \in 1..Len(batch) : \A g \in games :
                (/\ g.id = batch[i].game.id
                 /\ g.id \in obs.gamesBefore
                 /\ \A j \in 1..Len(batch) :
                        batch[j].game.id = g.id => batch[j].game = batch[i].game)
                => /\ g.status = batch[i].game.status
                   /\ g.home_team_score = batch[i].game.home_team_score
                   /\ g.visitor_team_score = batch[i].game.visitor_team_score

\* C5: a GameStats row, once stored, keeps every field through every later
\* run, whatever the provider reports for its (player, game) pair.
C5_StatRowsNeverChange ==
    [][/\ Len(stats') >= Len(stats)
       /\ \A i \in 1..Len(stats) : stats'[i] = stats[i]]_vars

\* a run that returned and inserted nothing although the provider reported a
\* different value for a stored pair
C5_Witness ==
    /\ obs.op = "sync_games"
    /\ obs.raised = "none"
    /\ Len(stats) = obs.statsBefore
    /\ \E i \in 1..Len(AllStatsOf(obs.input)) : \E k \in 1..Len(stats) :
          /\ PairOfRow(stats[k]) = PairOfRecord(AllStatsOf(obs.input)[i])
          /\ stats[k].pts # AllStatsOf(obs.input)[i].pts

(***************************************************************************)
(* Properties of sync_teams, checked under SpecTeams.                      *)
(***************************************************************************)
\* the last record of resp that carries team id
LastRecordOf(resp, id) ==
    resp[CHOOSE i \in 1..Len(resp) :
            resp[i].id = id /\ \A j \in (i + 1)..Len(resp) : resp[j].id # id]

\* C6: after a sync_teams run on a response, every team id of the response has
\* exactly one row, holding the values of the response, and the run returned
\* the number of teams of the response.
C6_TeamRowsFollowResponse ==
    (obs.op = "sync_teams" /\ obs.input.err = "ok") =>
        LET resp == obs.input.data
        IN  /\ obs.raised = "none"
            /\ obs.ret = Len(resp)
            /\ \A i \in 1..Len(resp) :
                  {t \in teams : t.id = resp[i].id} = {NewTeam(LastRecordOf(resp, resp[i].id))}

\* what does hold: at most one row per id, and the rows follow the response
\* of every run that returned
TeamRowsFollowReturnedRun ==
    /\ \A t, u \in teams : t.id = u.id => t = u
    /\ (obs.op = "sync_teams" /\ obs.raised = "none") =>
          /\ obs.ret = Len(obs.input.data)
          /\ \A i \in 1..Len(obs.input.data) :
                {t \in teams : t.id = obs.input.data[i].id}
                    = {NewTeam(LastRecordOf(obs.input.data, obs.input.data[i].id))}

\* C7: a response that holds two teams with different ids and the same
\* abbreviation (every id once) is accepted: the run returns and both teams
\* are stored as rows of their own.
C7_SharedAbbreviationAccepted ==
    (obs.op = "sync_teams" /\ obs.input.err = "ok") =>
        LET resp == obs.input.data
        IN  (/\ \A i, j \in 1..Len(resp) : i # j => resp[i].id # resp[j].id
             /\ \E i, j \in 1..Len(resp) :
                    resp[i].id # resp[j].id /\ resp[i].abbreviation = resp[j].abbreviation)
            => /\ obs.raised = "none"
               /\ \A i \in 1..Len(resp) : NewTeam(resp[i]) \in teams

(***************************************************************************)
(* Properties of perform_daily_sync, checked under SpecDaily.              *)
(***************************************************************************)
\* the SyncLog rows the invocation in flight has appended
RowsOfInvocation == SubSeq(syncLog, local.logStart + 1, Len(syncLog))

\* C8: the phases of an invocation return in the order teams, players,
\* games/stats, season averages, team standings, head-to-head, streaks; the
\* phase in progress is the one after the last that returned, so games/stats
\* runs only after the team sync and the player sync returned, and the
\* invocation is done only after all of them returned once.
C8_PhasesInOrder ==
    /\ phaseLog = SubSeq(PhaseOrder, 1, Len(phaseLog))
    /\ pc \in Range(PhaseOrder) =>
          /\ Len(phaseLog) < Len(PhaseOrder)
          /\ pc = PhaseOrder[Len(phaseLog) + 1]
    /\ pc = "SyncingGamesAndStats" => phaseLog = <<"SyncingTeams", "SyncingPlayers">>
    /\ pc \in {"Logging", "Done"} => phaseLog = PhaseOrder

\* an invocation that went through all seven phases
C8_Witness == pc = "Done" /\ phaseLog = PhaseOrder

\* C9: an invocation that has ended has appended exactly one SyncLog row:
\* success with the games-synced count after Done; failed with games_synced 0
\* and an error text of at most 500 characters after Failed.
C9_OneLogRowPerInvocation ==
    pc \in {"Done", "Failed"} =>
        /\ Len(RowsOfInvocation) = 1
        /\ pc = "Done" =>
              /\ RowsOfInvocation[1].status = "success"
              /\ RowsOfInvocation[1].games_synced = local.games_synced
        /\ pc = "Failed" =>
              /\ RowsOfInvocation[1].status = "failed"
              /\ RowsOfInvocation[1].games_synced = 0
              /\ RowsOfInvocation[1].error_len <= ErrorTextLimit

\* C10: an invocation in which the provider rejected the credential on some
\* fetch ends Failed, and no SyncLog row of it has status success.
C10_RejectedCredentialFails ==
    (pc \in {"Done", "Failed"} /\ local.rejected) =>
        /\ pc = "Failed"
        /\ \A i \in 1..Len(RowsOfInvocation) : RowsOfInvocation[i].status = "failed"

\* C11: an invocation that went through all phases although a fetch error was
\* printed and dropped on the way records status partial; status success is
\* recorded only by an invocation without such an error.
C11_AbsorbedErrorRecordsPartial ==
    pc = "Done" =>
        \A i \in 1..Len(RowsOfInvocation) :
            /\ local.absorbed > 0 => RowsOfInvocation[i].status = "partial"
            /\ RowsOfInvocation[i].status = "success" => local.absorbed = 0

(***************************************************************************)
(* Per-record failure handling of the upsert loops, checked on sync_teams  *)
(* under SpecTeams.                                                        *)
(***************************************************************************)
\* record i of resp can be written on its own: its id and its abbreviation
\* are not taken by an earlier record of resp, and its abbreviation is not
\* that of a stored row of another team
WritableAlone(rows, resp, i) ==
    /\ \A j \in 1..(i - 1) :
          resp[j].id # resp[i].id /\ resp[j].abbreviation # resp[i].abbreviation
    /\ \A t \in rows : t.id # resp[i].id => t.abbreviation # resp[i].abbreviation

\* C12: a record whose write fails is skipped alone: the run does not raise,
\* and every record of the response that can be written on its own has its
\* row.  (A run that raised left the table as it was before the run, so the
\* rows of the state are the rows the run started from.)
C12_RecordFailureAbsorbed ==
    (obs.op = "sync_teams" /\ obs.input.err = "ok") =>
        /\ obs.raised = "none"
        /\ \A i \in 1..Len(obs.input.data) :
              WritableAlone(teams, obs.input.data, i)
                  => NewTeam(obs.input.data[i]) \in teams

(***************************************************************************)
(* Properties of sync_players, checked under SpecPlayers.                  *)
(***************************************************************************)
\* the number of the first page of feed, from page on, that is not a full
\* page of records: an error, an empty page or a page shorter than PerPage
RECURSIVE FirstPartialPage(_, _)
FirstPartialPage(feed, page) ==
    IF page > Len(feed) \/ feed[page].err # "ok" \/ Len(feed[page].data) < PerPage
    THEN page
    ELSE FirstPartialPage(feed, page + 1)

\* the records of pages 1 .. last of feed
RECURSIVE RecordsOfPages(_, _)
RecordsOfPages(feed, last) ==
    IF last = 0 THEN <<>>
    ELSE RecordsOfPages(feed, last - 1)
            \o (IF last <= Len(feed) THEN feed[last].data ELSE <<>>)

\* the last record of recs that carries player id
LastPlayerRecord(recs, id) ==
    recs[CHOOSE i \in 1..Len(recs) :
            recs[i].id = id /\ \A j \in (i + 1)..Len(recs) : recs[j].id # id]

\* C13: sync_players asks for the pages 1, 2, 3, ... once each, in order, up to
\* and including the first page that is empty or shorter than per_page, and no
\* further (so it ends after at most one request more than the provider has
\* pages); the upsert loop runs over exactly the records of those pages: the
\* run returns their number, every one of their players has the row of its
\* last record, and the rows of all other players are left as they were.
C13_PagesInOrderUntilShort ==
    obs.op = "sync_players" =>
        LET feed == obs.input
            last == FirstPartialPage(feed, 1)
        IN  /\ obs.requested = [i \in 1..last |-> i]
            /\ last <= Len(feed) + 1
            /\ fetch_api(feed, last).err = "ok" =>
                  /\ obs.all_players = RecordsOfPages(feed, last)
                  /\ obs.raised = "none" =>
                        /\ obs.ret = Len(obs.all_players)
                        /\ \A i \in 1..Len(obs.all_players) :
                              {r \in players : r.id = obs.all_players[i].id}
                                  = {NewPlayer(LastPlayerRecord(obs.all_players,
                                                                obs.all_players[i].id))}
                        /\ \A r \in obs.playersBefore :
                              (\A i \in 1..Len(obs.all_players) : obs.all_players[i].id # r.id)
                                  => r \in players

\* a run that asked for two pages, the second one short and not empty, and
\* stored the players of both
C13_Witness ==
    /\ obs.op = "sync_players"
    /\ obs.raised = "none"
    /\ obs.requested = <<1, 2>>
    /\ Len(obs.all_players) = PerPage + 1
    /\ \A i \in 1..Len(obs.all_players) : \E r \in players : r.id = obs.all_players[i].id

(***************************************************************************)
(* Properties of sync_season_averages, checked under SpecAverages.         *)
(***************************************************************************)
\* the computed fields of a SeasonAverages row: everything but the
\* last_updated stamp, which holds the time of the run
OutputFields(row) ==
    [player_id |-> row.player_id, season |-> row.season,
     games_played |-> row.games_played, avg_pts |-> row.avg_pts]

\* the rows of table of key (p, season), as row numbers
AverageRowsOf(table, p, season) ==
    {i \in 1..Len(table) : table[i].player_id = p /\ table[i].season = season}

C15_RowIffFiveGames ==
    obs.op = "sync_season_averages" =>
        \A p \in PlayerIds :
            LET n == Cardinality({i \in LinesOf(stats, p) :
                        \E g \in games : g.id = stats[i].game_id /\ g.season = obs.input})
                mine == AverageRowsOf(seasonAverages, p, obs.input)
                written == {i \in mine : seasonAverages[i].last_updated = obs.now}
            IN  /\ n >= 5 => /\ Cardinality(written) = 1
                             /\ \A i \in written : seasonAverages[i].games_played = n
                /\ n < 5 => /\ written = {}
                            /\ mine = AverageRowsOf(obs.rowsBefore, p, obs.input)
                            /\ \A i \in mine : seasonAverages[i] = obs.rowsBefore[i]

\* a run over a player with 5 lines of which 4 are of the season, who gets no
\* row, and a player with 5 lines of the season, who gets one
C15_Witness ==
    /\ obs.op = "sync_season_averages"
    /\ \E p, q \in PlayerIds :
          /\ Cardinality(LinesOf(stats, p)) = 5
          /\ AverageRowsOf(seasonAverages, p, Season) = {}
          /\ Cardinality(LinesOf(stats, q)) = 6
          /\ \E i \in AverageRowsOf(seasonAverages, q, Season) :
                seasonAverages[i].games_played = 5 /\ seasonAverages[i].last_updated = obs.now

(***************************************************************************)
(* Properties of sync_team_standings, checked under SpecStandings.         *)
(***************************************************************************)
\* the completed games of team t in the season: those stored with scores
CompletedGamesOf(t, season) ==
    {g \in games : /\ g.season = season
                   /\ t \in {g.home_team_id, g.visitor_team_id}
                   /\ g.home_team_score # Null
                   /\ g.visitor_team_score # Null}

\* the score of team t and of its opponent in game g
ScoreOf(g, t) == IF g.home_team_id = t THEN g.home_team_score ELSE g.visitor_team_score
ScoreAgainst(g, t) == IF g.home_team_id = t THEN g.visitor_team_score ELSE g.home_team_score

TeamWon(g, t) == ScoreOf(g, t) > ScoreAgainst(g, t)

StandingRowsOf(t, season) ==
    {i \in 1..Len(teamStandings) :
        teamStandings[i].team_id = t /\ teamStandings[i].season = season}

\* C16: after a sync_team_standings run, every stored team with a completed
\* game of the season has one row, written by the run, whose wins is the
\* number of its completed games with a strictly higher score than the
\* opponent's and whose losses is the number of the others, split into home
\* and away; a team without a completed game has no row from the run.
C16_WinsAndLossesCounted ==
    obs.op = "sync_team_standings" =>
        \A team \in teams :
            LET t == team.id
                played == CompletedGamesOf(t, obs.input)
                won == {g \in played : TeamWon(g, t)}
                mine == StandingRowsOf(t, obs.input)
            IN  /\ played # {} =>
                    /\ Cardinality(mine) = 1
                    /\ \A i \in mine :
                        LET row == teamStandings[i]
                        IN  /\ row.last_updated = obs.now
                            /\ row.wins = Cardinality(won)
                            /\ row.losses = Cardinality(played \ won)
                            /\ row.wins = row.home_wins + row.away_wins
                            /\ row.losses = row.home_losses + row.away_losses
                            /\ row.wins + row.losses = Cardinality(played)
                /\ played = {} =>
                    \A i \in mine : teamStandings[i].last_updated # obs.now

\* a run over a team that won at home and lost away, and a stored team that
\* has not played
C16_Witness ==
    /\ obs.op = "sync_team_standings"
    /\ \E i \in 1..Len(teamStandings) :
          /\ teamStandings[i].last_updated = obs.now
          /\ teamStandings[i].home_wins = 1
          /\ teamStandings[i].away_losses = 1
    /\ \E team \in teams :
          CompletedGamesOf(team.id, obs.input) = {} /\ StandingRowsOf(team.id, obs.input) = {}

\* the k most recent of a set of games of distinct dates
MostRecent(played, k) ==
    {g \in played : Cardinality({h \in played : h.date > g.date}) < k}

\* C17: the current_streak a run stores for a team is the letter W if the
\* team won its most recent completed game and L otherwise, followed by the
\* largest n such that the n most recent completed games all have the result
\* of the most recent one; 1 <= n <= number of completed games.
C17_StreakIsMaximalRun ==
    obs.op = "sync_team_standings" =>
        \A team \in teams :
            LET t == team.id
                played == CompletedGamesOf(t, obs.input)
            IN  played # {} =>
                    \A i \in StandingRowsOf(t, obs.input) :
                        LET streak == teamStandings[i].current_streak
                            last == CHOOSE g \in played : \A h \in played : h.date <= g.date
                            SameRun(k) ==
                                \A g \in MostRecent(played, k) : TeamWon(g, t) = TeamWon(last, t)
                        IN  /\ Len(streak) = 2
                            /\ streak[1] = (IF TeamWon(last, t) THEN "W" ELSE "L")
                            /\ streak[2] \in 1..Cardinality(played)
                            /\ SameRun(streak[2])
                            /\ streak[2] < Cardinality(played) => ~SameRun(streak[2] + 1)

\* a run that stored a streak of two wins for a team that lost the game
\* before them
C17_Witness ==
    /\ obs.op = "sync_team_standings"
    /\ \E i \in 1..Len(teamStandings) :
          /\ teamStandings[i].last_updated = obs.now
          /\ teamStandings[i].current_streak = <<"W", 2>>
          /\ teamStandings[i].losses = 1

(***************************************************************************)
(* Properties of sync_head_to_head, checked under SpecHeadToHead.          *)
(***************************************************************************)
\* the completed games of the season between teams a and b, whoever hosts
GamesBetween(a, b, season) ==
    {g \in games : /\ g.season = season
                   /\ {g.home_team_id, g.visitor_team_id} = {a, b}
                   /\ g.home_team_score # Null}

HeadToHeadRowsOf(a, b, season) ==
    {i \in 1..Len(headToHead) :
        /\ {headToHead[i].team_1_id, headToHead[i].team_2_id} = {a, b}
        /\ headToHead[i].season = season}

\* C18: in every state the head_to_head table has at most one row per
\* unordered pair of teams and season, stored with team_1_id < team_2_id; and
\* after a sync_head_to_head run, every pair of teams with a completed game of
\* the season has its row, in which team_1_wins + team_2_wins is the number
\* of completed games of the pair, whichever of the two hosted them.
C18_OneRowPerPair ==
    /\ \A i, j \in 1..Len(headToHead) :
          (/\ {headToHead[i].team_1_id, headToHead[i].team_2_id}
                  = {headToHead[j].team_1_id, headToHead[j].team_2_id}
           /\ headToHead[i].season = headToHead[j].season) => i = j
    /\ \A i \in 1..Len(headToHead) : headToHead[i].team_1_id < headToHead[i].team_2_id
    /\ obs.op = "sync_head_to_head" =>
          \A g \in games :
              LET a == g.home_team_id
                  b == g.visitor_team_id
                  between == GamesBetween(a, b, obs.input)
              IN  between # {} =>
                    /\ Cardinality(HeadToHeadRowsOf(a, b, obs.input)) = 1
                    /\ \A i \in HeadToHeadRowsOf(a, b, obs.input) :
                          headToHead[i].team_1_wins + headToHead[i].team_2_wins
                              = Cardinality(between)

\* a second run over a pair that has played at both teams' homes
C18_Witness ==
    /\ obs.op = "sync_head_to_head"
    /\ Len(obs.rowsBefore) > 0
    /\ \E g, h \in games :
          /\ g.season = obs.input /\ h.season = obs.input
          /\ g.home_team_score # Null /\ h.home_team_score # Null
          /\ g.home_team_id = h.visitor_team_id
          /\ g.visitor_team_id = h.home_team_id
          /\ \E i \in HeadToHeadRowsOf(g.home_team_id, g.visitor_team_id, obs.input) :
                /\ headToHead[i].last_updated = obs.now
                /\ headToHead[i].team_1_wins + headToHead[i].team_2_wins >= 2

(***************************************************************************)
(* Properties of detect_performance_streaks, checked under SpecStreaks.    *)
(***************************************************************************)
\* the GameStats rows of player p in games of the season, as row numbers
SeasonLinesOf(p, season) ==
    {i \in LinesOf(stats, p) :
        \E g \in games : g.id = stats[i].game_id /\ g.season = season}

GameDateOf(i) == (CHOOSE g \in games : g.id = stats[i].game_id).date

\* the k most recent of the lines of idx (the games of a player have
\* distinct dates)
MostRecentLines(idx, k) ==
    {i \in idx : Cardinality({j \in idx : GameDateOf(j) > GameDateOf(i)}) < k}

\* the stored season average of pts of player p is num / den; a value v meets
\* the hot threshold if v >= 1.2 * num / den
MeetsHot(v, avg) == 10 * v * avg.den >= 12 * avg.num

\* C19: a hot row that a detect_performance_streaks run writes holds as
\* current_streak the number n of consecutive games, counted from the most
\* recent of the player's last 10 games of the season backwards, whose value
\* is at least 1.2 times the stored season average, up to the first game
\* below it; and n >= 3.
C19_HotStreakCountsLeadingRun ==
    obs.op = "detect_performance_streaks" =>
        \A r \in 1..Len(streaks) :
            (streaks[r].last_updated = obs.now /\ streaks[r].streak_type = "hot") =>
                LET p == streaks[r].player_id
                    lines == SeasonLinesOf(p, obs.input)
                    window == IF Cardinality(lines) < 10 THEN Cardinality(lines) ELSE 10
                    avg == (CHOOSE a \in Range(seasonAverages) :
                                a.player_id = p /\ a.season = obs.input).avg_pts
                    AllHot(k) == \A i \in MostRecentLines(lines, k) :
                                        MeetsHot(stats[i].pts, avg)
                    n == streaks[r].current_streak
                IN  /\ window >= 5
                    /\ avg.num # 0
                    /\ n >= 3
                    /\ n <= window
                    /\ AllHot(n)
                    /\ n < window => ~AllHot(n + 1)

\* a run that wrote a hot streak of 4 for a player whose fifth most recent
\* game is below the threshold
C19_Witness ==
    /\ obs.op = "detect_performance_streaks"
    /\ \E r \in 1..Len(streaks) :
          /\ streaks[r].last_updated = obs.now
          /\ streaks[r].streak_type = "hot"
          /\ streaks[r].current_streak = 4
          /\ Cardinality(SeasonLinesOf(streaks[r].player_id, obs.input)) >= 5

\* C20: no (player, season, metric) has an active hot row and an active cold
\* row at the same time.
C20_OneActiveStreakType ==
    \A i, j \in 1..Len(streaks) :
        (/\ streaks[i].player_id = streaks[j].player_id
         /\ streaks[i].season = streaks[j].season
         /\ streaks[i].metric = streaks[j].metric
         /\ streaks[i].is_active
         /\ streaks[j].is_active) => streaks[i].streak_type = streaks[j].streak_type

\* the rows of table of key (player, season, metric, streak_type), as row
\* numbers
StreakRowsOf(table, key) ==
    {i \in 1..Len(table) :
        /\ table[i].player_id = key.player_id
        /\ table[i].season = key.season
        /\ table[i].metric = key.metric
        /\ table[i].streak_type = key.streak_type}

\* C21: there is at most one PerformanceStreak row per (player, season,
\* metric, streak_type); a run that detects a streak whose row exists writes
\* the count, the best and the average into that row, in its place, and adds
\* no row for the key.
C21_StreakRowUpdatedInPlace ==
    /\ \A i, j \in 1..Len(streaks) : j \in StreakRowsOf(streaks, streaks[i]) => i = j
    /\ obs.op = "detect_performance_streaks" =>
          \A i \in 1..Len(obs.rowsBefore) :
              /\ StreakRowsOf(streaks, obs.rowsBefore[i]) = {i}
              /\ streaks[i].last_updated = obs.now =>
                    LET lines == SeasonLinesOf(streaks[i].player_id, obs.input)
                        run == MostRecentLines(lines, streaks[i].current_streak)
                    IN  /\ Cardinality(run) = streaks[i].current_streak
                        /\ \A k \in run :
                              IF streaks[i].streak_type = "hot"
                              THEN stats[k].pts <= streaks[i].best_performance
                              ELSE stats[k].pts >= streaks[i].best_performance
                        /\ \E k \in run : stats[k].pts = streaks[i].best_performance

\* a run that found a streak lasting since the run before, one game longer,
\* and wrote it into the row of the run before
C21_Witness ==
    /\ obs.op = "detect_performance_streaks"
    /\ Len(streaks) = 1
    /\ Len(obs.rowsBefore) = 1
    /\ streaks[1].last_updated = obs.now
    /\ streaks[1].current_streak = obs.rowsBefore[1].current_streak + 1
    /\ streaks[1].streak_type = obs.rowsBefore[1].streak_type


\* a value v meets the cold threshold if v <= 0.8 * num / den
MeetsCold(v, avg) == 10 * v * avg.den <= 8 * avg.num

\* C29: after a detect_performance_streaks run every active row describes a
\* streak that the run detected: a streak that has ended (fewer than
\* min_streak games in a row, counted from the most recent one, meet the
\* threshold) has no active row, and streak_start_date is the date of the
\* oldest game of the current run of games meeting the threshold.
C29_ActiveRowsAreCurrent ==
    obs.op = "detect_performance_streaks" =>
        \A r \in 1..Len(streaks) :
            (streaks[r].is_active /\ streaks[r].season = obs.input) =>
                LET p == streaks[r].player_id
                    lines == SeasonLinesOf(p, obs.input)
                    avg == (CHOOSE a \in Range(seasonAverages) :
                                a.player_id = p /\ a.season = obs.input).avg_pts
                    Meets(v) == IF streaks[r].streak_type = "hot"
                                THEN MeetsHot(v, avg) ELSE MeetsCold(v, avg)
                    AllMeet(k) == \A i \in MostRecentLines(lines, k) : Meets(stats[i].pts)
                    n == CHOOSE k \in 0..Cardinality(lines) :
                            /\ AllMeet(k)
                            /\ k < Cardinality(lines) => ~AllMeet(k + 1)
                IN  /\ n >= MinStreak
                    /\ \E k \in MostRecentLines(lines, n) :
                          /\ GameDateOf(k) = streaks[r].streak_start_date
                          /\ \A j \in MostRecentLines(lines, n) :
                                GameDateOf(j) >= GameDateOf(k)

(***************************************************************************)
(* Properties of calculate_rolling_metric, checked under SpecRolling.      *)
(***************************************************************************)
Called == obs.op \in {"calculate_rolling_metric", "analyze_metric_rate"} /\ obs.raised = "none"

\* the games the report lists, window after window
RECURSIVE DetailsListed(_)
DetailsListed(infos) == IF infos = <<>> THEN <<>> ELSE infos[1].details \o DetailsListed(Tail(infos))

\* what a detail shows of a game of the list
ShownOf(g) ==
    [date |-> g.date, value |-> g.pts, location |-> IF g.is_home THEN "home" ELSE "away"]

ShownOfDetail(d) == [date |-> d.date, value |-> d.value, location |-> d.location]

CountOf(seq, x) == Cardinality({i \in 1..Len(seq) : seq[i] = x})

CountUpTo(seq, date) == Cardinality({i \in 1..Len(seq) : seq[i].date <= date})

\* the listed games are the first k games of the list in ascending date order
FirstByDate(listed, game_list, k) ==
    /\ Len(listed) = k
    /\ \A i \in 1..(Len(listed) - 1) : listed[i].date <= listed[i + 1].date
    /\ \A d \in Range(listed) :
          CountOf([i \in 1..Len(listed) |-> ShownOfDetail(listed[i])], ShownOfDetail(d))
            <= CountOf([i \in 1..Len(game_list) |-> ShownOf(game_list[i])], ShownOfDetail(d))
    /\ \A g \in Range(game_list) :
          CountUpTo(listed, g.date) = Min(k, CountUpTo(game_list, g.date))

\* rate is (num / den) * 100 rounded to one decimal, in tenths
IsOneDecimalOf(rate, num, den) ==
    LET diff == 1000 * num - rate * den
    IN  2 * diff <= den /\ 2 * (0 - diff) <= den

\* the general part of C22: floor(n / w) windows of w consecutive games in
\* ascending date order, the trailing n mod w games left out, and the
\* overall rate taken over the games of the full windows
FullWindowsReported ==
    LET n == Len(obs.game_list)
        w == obs.window_size
        r == obs.report
        listed == DetailsListed(r.windows_analyzed)
        hits == Cardinality({i \in 1..Len(listed) : listed[i].value >= obs.threshold})
    IN  /\ r.kind = "report"
        /\ Len(r.windows_analyzed) = n \div w
        /\ \A k \in 1..Len(r.windows_analyzed) :
              /\ Len(r.windows_analyzed[k].details) = w
              /\ r.windows_analyzed[k].games = <<(k - 1) * w + 1, k * w>>
        /\ FirstByDate(listed, obs.game_list, (n \div w) * w)
        /\ IsOneDecimalOf(r.overall_rate, hits, (n \div w) * w)

\* C22 (as amended): for n games and a window size w with n >= w >= 1 the
\* report has exactly floor(n / w) windows of w consecutive games in
\* ascending date order, the trailing n mod w games are excluded, and
\* overall_rate is the hits of the full windows over floor(n / w) * w, times
\* 100, rounded to one decimal; 2w games give 2 windows, and w + 3 games
\* give 1 window when w > 3.
C22_FullWindows ==
    (Called /\ obs.window_size >= 1 /\ Len(obs.game_list) >= obs.window_size) =>
        /\ FullWindowsReported
        /\ Len(obs.game_list) = 2 * obs.window_size => Len(obs.report.windows_analyzed) = 2
        /\ (Len(obs.game_list) = obs.window_size + 3 /\ obs.window_size > 3) =>
              Len(obs.report.windows_analyzed) = 1

\* C22 as stated: w + 3 games give 1 window whatever w is.
C22_AsStated ==
    (Called /\ obs.window_size >= 1 /\ Len(obs.game_list) >= obs.window_size) =>
        /\ FullWindowsReported
        /\ Len(obs.game_list) = 2 * obs.window_size => Len(obs.report.windows_analyzed) = 2
        /\ Len(obs.game_list) = obs.window_size + 3 => Len(obs.report.windows_analyzed) = 1

\* w + 3 games with w > 3: one window, the three latest games left out
C22_Witness ==
    /\ Called
    /\ obs.window_size > 3
    /\ Len(obs.game_list) = obs.window_size + 3
    /\ obs.report.kind = "report"
    /\ Len(obs.report.windows_analyzed) = 1
    /\ obs.report.total_games = Len(DetailsListed(obs.report.windows_analyzed)) + 3

\* the request of the scenario: twelve rows, one a day, whose points in date
\* order are ScenarioPoints, with threshold 25 and window size 10
ScenarioAsked ==
    /\ Called
    /\ Len(obs.game_list) = Len(ScenarioPoints)
    /\ \A d \in 1..Len(ScenarioPoints) :
          \E i \in 1..Len(obs.game_list) :
              obs.game_list[i].date = d /\ obs.game_list[i].pts = ScenarioPoints[d]
    /\ obs.threshold = 25
    /\ obs.window_size = 10

\* exactly one window, over games 1-10, with the given hits and overall rate
ScenarioReport(hits, tenths) ==
    /\ obs.report.kind = "report"
    /\ Len(obs.report.windows_analyzed) = 1
    /\ obs.report.windows_analyzed[1].games = <<1, 10>>
    /\ [i \in 1..10 |-> obs.report.windows_analyzed[1].details[i].value]
          = SubSeq(ScenarioPoints, 1, 10)
    /\ obs.report.windows_analyzed[1].threshold_met = hits
    /\ obs.report.overall_rate = tenths

\* C23 (as amended): for the twelve rows with points
\* [30,28,31,29,10,12,8,9,25,27,24,26] in date order, threshold 25 and
\* window size 10, the report has exactly 1 window with 6 hits among the
\* first 10 games and overall_rate = 60.0.
C23_ScenarioSixHits == ScenarioAsked => ScenarioReport(6, 600)

\* C23 as stated: 4 hits and overall_rate = 40.0.
C23_AsStated == ScenarioAsked => ScenarioReport(4, 400)

\* the scenario asked with the rows latest first, and answered by a report
C23_Witness ==
    /\ ScenarioAsked
    /\ obs.game_list[1].date = 12
    /\ obs.report.kind = "report"
    /\ obs.report.total_games = 12

\* C24: for every game list and every window size the endpoint accepts, zero
\* and negative ones included, calculate_rolling_metric returns the
\* insufficient-data result exactly when there are fewer games than
\* window_size and a report otherwise; it never fails with an error.  Stated
\* for the calls the endpoint makes, whose game lists are not empty.
C24_NeverFails ==
    (Called /\ obs.op = "analyze_metric_rate") =>
        /\ obs.report.kind \in {"insufficient", "report"}
        /\ obs.report.kind = "insufficient" <=> Len(obs.game_list) < obs.window_size

RECURSIVE SumField(_, _)
SumField(seq, field) == IF seq = <<>> THEN 0 ELSE seq[1][field] + SumField(Tail(seq), field)

\* C25: in every report the home/away split and the per-opponent breakdown
\* cover exactly the games of the full windows: home games + away games =
\* sum of the per-opponent games = windows x window_size, and home hits +
\* away hits = sum of the per-opponent hits = the hits of overall_rate; each
\* entry counts the games the windows list for it, so no trailing game is
\* counted anywhere.
C25_SplitsCoverFullWindows ==
    (Called /\ obs.report.kind = "report") =>
        LET r == obs.report
            listed == DetailsListed(r.windows_analyzed)
            In(location) == {i \in 1..Len(listed) : listed[i].location = location}
            Against(opp) == {i \in 1..Len(listed) : listed[i].opponent = opp}
            Hits(S) == Cardinality({i \in S : listed[i].met_threshold})
            home == r.home_away_splits.home
            away == r.home_away_splits.away
            total_hits == SumField(r.windows_analyzed, "threshold_met")
        IN  /\ home.games = Cardinality(In("home")) /\ home.threshold_met = Hits(In("home"))
            /\ away.games = Cardinality(In("away")) /\ away.threshold_met = Hits(In("away"))
            /\ \A i \in 1..Len(r.opponent_breakdown) :
                  LET e == r.opponent_breakdown[i]
                  IN  /\ e.games = Cardinality(Against(e.opponent))
                      /\ e.threshold_met = Hits(Against(e.opponent))
            /\ home.games + away.games = Len(r.windows_analyzed) * obs.window_size
            /\ SumField(r.opponent_breakdown, "games") = home.games + away.games
            /\ home.threshold_met + away.threshold_met = total_hits
            /\ SumField(r.opponent_breakdown, "threshold_met") = total_hits
            /\ IsOneDecimalOf(r.overall_rate, total_hits, home.games + away.games)

\* a report that leaves a trailing game out and counts home and away games,
\* hits and misses, against two opponents
C25_Witness ==
    /\ Called
    /\ obs.report.kind = "report"
    /\ obs.report.total_games > Len(obs.report.windows_analyzed) * obs.window_size
    /\ obs.report.home_away_splits.home.games > 0
    /\ obs.report.home_away_splits.away.threshold_met > 0
    /\ Len(obs.report.opponent_breakdown) = 2
    /\ obs.report.overall_rate \notin {0, 1000}

(***************************************************************************)
(* Which operation writes which table, checked under SpecOwnership.        *)
(***************************************************************************)
IngestionOps == {"sync_teams", "sync_players", "sync_games"}

AggregationOps ==
    {"sync_season_averages", "sync_team_standings", "sync_head_to_head",
     "detect_performance_streaks"}

\* C26: no aggregation operation inserts, updates or deletes a Team, Player,
\* Game or GameStat row, and no ingestion operation writes a SeasonAverage,
\* TeamStanding, HeadToHead or PerformanceStreak row.
C26_OwnTablesOnly ==
    [][/\ obs'.op \in AggregationOps => UNCHANGED <<teams, players, games, stats>>
       /\ obs'.op \in IngestionOps =>
             UNCHANGED <<seasonAverages, teamStandings, headToHead, streaks>>]_vars

\* a box-score line ingested after three of the derived tables got rows from
\* the raw tables
C26_Witness ==
    /\ obs.op = "sync_games"
    /\ obs.ret = 1
    /\ teams # {}
    /\ players # {}
    /\ Len(seasonAverages) > 0
    /\ Len(streaks) > 0
    /\ Len(teamStandings) + Len(headToHead) > 0

(***************************************************************************)
(* Properties of the fetch loops of sync_games_for_date_range, checked     *)
(* under SpecRange.                                                        *)
(***************************************************************************)
\* the pages requested for date d, in the order of the requests
PagesAsked(d) ==
    LET on == SelectSeq(obs.requests, LAMBDA q : q.date = d)
    IN  [i \in 1..Len(on) |-> on[i].page]

\* the answer to page p of date d ends the paging of d: a failure, an empty
\* page or a short one
EndsPaging(d, p) ==
    LET answer == fetch_api(obs.input[d], p)
    IN  answer.err # "ok" \/ Len(answer.data) < PerPage

LastPageOf(d) ==
    CHOOSE m \in 1..(Len(obs.input[d]) + 1) :
        EndsPaging(d, m) /\ \A p \in 1..(m - 1) : ~EndsPaging(d, p)

\* the records of pages first..LastPageOf(d) of date d that were answered
RECURSIVE RecordsFrom(_, _)
RecordsFrom(d, first) ==
    IF first > LastPageOf(d) THEN <<>>
    ELSE (IF fetch_api(obs.input[d], first).err = "ok"
          THEN fetch_api(obs.input[d], first).data ELSE <<>>)
         \o RecordsFrom(d, first + 1)

\* the records of the dates first_date..obs.end_date
RECURSIVE RecordsOfDates(_)
RecordsOfDates(first_date) ==
    IF first_date > obs.end_date THEN <<>>
    ELSE RecordsFrom(first_date, 1) \o RecordsOfDates(first_date + 1)

\* C27: sync_games_for_date_range requests every date from start_date to
\* end_date exactly once, in ascending order, paging each until a page is
\* empty or short; a failing request ends the paging of its date only, the
\* records accumulated so far are kept and processed, and the following
\* dates are still fetched; the run comes to its end, and when start_date is
\* after end_date nothing is fetched and 0 is returned.
C27_EveryDateOncePagedToTheEnd ==
    (obs.op = "sync_games") =>
        /\ \A i \in 1..(Len(obs.requests) - 1) :
              obs.requests[i].date <= obs.requests[i + 1].date
        /\ {q.date : q \in Range(obs.requests)} = obs.start_date..obs.end_date
        /\ \A d \in obs.start_date..obs.end_date :
              PagesAsked(d) = [p \in 1..LastPageOf(d) |-> p]
        /\ obs.all_stats = RecordsOfDates(obs.start_date)
        /\ obs.raised = "none" =>
              /\ \A rec \in Range(obs.all_stats) :
                    /\ rec.game.id \in GameIdsStored
                    /\ \E i \in 1..Len(stats) : PairOfRow(stats[i]) = PairOfRecord(rec)
              /\ obs.ret = Cardinality({rec.game.id : rec \in Range(obs.all_stats)})
        /\ obs.start_date > obs.end_date =>
              /\ obs.requests = <<>> /\ obs.raised = "none" /\ obs.ret = 0
              /\ stats = <<>> /\ games = {}

\* three dates asked: on the first a full page and then a failing request,
\* on the second a failing first request, on the third a full page and an
\* empty one; the lines of the first and of the third are stored
C27_Witness ==
    /\ obs.op = "sync_games"
    /\ obs.raised = "none"
    /\ obs.start_date = 1 /\ obs.end_date = 3
    /\ Len(obs.swallowed) = 2
    /\ PagesAsked(1) = <<1, 2>> /\ PagesAsked(2) = <<1>> /\ PagesAsked(3) = <<1, 2>>
    /\ Len(stats) = 2 * PerPage
    /\ obs.ret = 2 * PerPage

(***************************************************************************)
(* Overlapping invocations, checked under SpecOverlap.                     *)
(***************************************************************************)
\* C28: when two sync invocations overlap over the same date, then in every
\* interleaving of their lookups, inserts and commits the store has at most
\* one GameStat row per (player_id, game_id).
C28_OneRowPerPair ==
    \A i, j \in 1..Len(stats) : PairOfRow(stats[i]) = PairOfRow(stats[j]) => i = j

(***************************************************************************)
(* The except block of perform_daily_sync, checked under SpecDaily.        *)
(***************************************************************************)
\* C30: when a phase of perform_daily_sync raises, the rows it had staged in
\* the session and not committed are not persisted: the handling of the
\* failure, which writes the failed SyncLog row with games_synced 0, adds no
\* Team, Player, Game or GameStat row to those that the finished phases
\* committed.
C30_StagedRowsNotPersisted ==
    [][pc = "Handling" => UNCHANGED <<teams, players, games, stats>>]_vars
====
